---- MODULE Spec2Model ----
(***************************************************************************)
(* State store and workpad lifecycle controller of Solo-Git's desktop      *)
(* backend (heaven-gui/src-tauri/src/commands.rs).                         *)
(*                                                                         *)
(* The state is the constellation of JSON documents under the state        *)
(* directory, one function per directory (document id -> document), the    *)
(* patch-history files, the per-workpad logs and the repository working    *)
(* directories.  Every Uuid::new_v4() is a fresh value, drawn from a       *)
(* counter per kind of identifier.  Timestamps (created_at, updated_at,    *)
(* last_updated, started_at, ...) are left out of the documents, except    *)
(* promoted_at, which is either unset or the token Now.  update_config and  *)
(* the settings commands work on files no other command reads and are left *)
(* out.                                                                    *)
(*                                                                         *)
(* Spec runs whole commands one after another with any input; SpecValid    *)
(* runs longer sequences of commands that all succeed; SpecTitles creates  *)
(* workpads with every short title; SpecPaths creates repositories at      *)
(* custom paths; SpecCost follows the AI cost; SpecFault lets a file       *)
(* operation of apply_patch fail, SpecPartial one of promote_workpad or    *)
(* create_workpad;                                                         *)
(* SpecConc interleaves the commands of several processes file operation   *)
(* by file operation, SpecPatches those that work on a patched workpad;    *)
(* SpecWrite follows concurrent write_json calls on one path system call   *)
(* by system call.                                                         *)
(*                                                                         *)
(* Strings that the code inspects character by character (titles, names,   *)
(* targets, prompts) are sequences of one-character strings; paths are     *)
(* sequences of components; a diff is a sequence of lines, each line a     *)
(* pair <<prefix, rest>>.                                                  *)
(***************************************************************************)
EXTENDS Naturals, Integers, Sequences, FiniteSets, TLC

\* ------------------------------------------------------------------ bounds
\* Commands that succeed in one run (the session's total_operations).
MaxOps == 5
\* Commands of one run of valid commands only.
MaxValidOps == 8
\* Identifiers of each kind that Uuid::new_v4() hands out in one run.
MaxRepos == 2
MaxWorkpads == 2
MaxRuns == 2
MaxAiOps == 2
MaxCommits == 2
\* Commands that succeed, and file operations that fail, in one run in which
\* file operations may fail.
MaxFaultOps == 3
MaxFaults == 1
\* Characters of a workpad title, and commands that succeed, in one run that
\* tries every title.
MaxTitleLen == 3
MaxTitleOps == 3
\* Commands that succeed in one run that creates repositories at custom paths.
MaxPathOps == 4
\* Commands that succeed in one run that follows the AI cost.
MaxCostOps == 5

\* Option::None, in every Option<String> field and argument.
NoneVal == "<none>"
\* Utc::now().to_rfc3339(), where a document records that a time was stamped.
Now == "now"

\* ------------------------------------------------------- strings and paths
Lower == <<"a","b","c","d","e","f","g","h","i","j","k","l","m",
           "n","o","p","q","r","s","t","u","v","w","x","y","z">>
Upper == <<"A","B","C","D","E","F","G","H","I","J","K","L","M",
           "N","O","P","Q","R","S","T","U","V","W","X","Y","Z">>
Digits == <<"0","1","2","3","4","5","6","7","8","9">>
Range(s) == {s[i] : i \in DOMAIN s}
Whitespace == {" ", "\t", "\n"}

IsAsciiAlphanumeric(c) == c \in Range(Lower) \cup Range(Upper) \cup Range(Digits)

\* char::to_lowercase on the ASCII letters.
ToLowerChar(c) ==
    IF c \in Range(Upper)
    THEN Lower[CHOOSE i \in DOMAIN Upper : Upper[i] = c]
    ELSE c

\* str::trim_matches: drop the leading and trailing characters that are in cs.
RECURSIVE TrimStart(_, _)
TrimStart(s, cs) ==
    IF s # <<>> /\ Head(s) \in cs THEN TrimStart(Tail(s), cs) ELSE s
RECURSIVE TrimEnd(_, _)
TrimEnd(s, cs) ==
    IF s # <<>> /\ s[Len(s)] \in cs THEN TrimEnd(SubSeq(s, 1, Len(s) - 1), cs) ELSE s
TrimMatches(s, cs) == TrimEnd(TrimStart(s, cs), cs)
\* str::trim
Trim(s) == TrimMatches(s, Whitespace)

\* Mutant: a slug that keeps its leading and trailing '-'.
slugifyUntrimmed(value) ==
    LET lowered == [i \in DOMAIN value |-> ToLowerChar(value[i])]
    IN  [i \in DOMAIN lowered |->
            IF IsAsciiAlphanumeric(lowered[i]) THEN lowered[i] ELSE "-"]
\* slugify: lower-case, every non-alphanumeric character becomes '-', then
\* the leading and trailing '-' are trimmed.
slugify(value) ==
    LET lowered == [i \in DOMAIN value |-> ToLowerChar(value[i])]
        mapped  == [i \in DOMAIN lowered |->
                       IF IsAsciiAlphanumeric(lowered[i]) THEN lowered[i] ELSE "-"]
    IN  TrimMatches(mapped, {"-"})

\* The characters of a decimal number (the model's Uuid::simple() rendering).
RECURSIVE NatChars(_)
NatChars(n) ==
    IF n < 10 THEN <<Digits[n + 1]>> ELSE NatChars(n \div 10) \o <<Digits[(n % 10) + 1]>>

\* format!("wp-{}", uuid) as characters, and as the document id.
WorkpadIdChars(n) == <<"w", "p", "-">> \o NatChars(n)
WorkpadId(n) == "wp-" \o ToString(n)
RepoId(n) == "repo-" \o ToString(n)
RunId(n) == "tr-" \o ToString(n)
OperationId(n) == "op-" \o ToString(n)
RecordId(n) == "pr-" \o ToString(n)
CommitId(n) == "c" \o ToString(n)
\* Mutant: the patch file is keyed by the workpad id alone.
PatchIdByWorkpad(wid, n) == wid
PatchId(wid, n) == wid \o "-" \o ToString(n)

\* Iterator::take(k) on a sequence.
Take(s, k) == SubSeq(s, 1, IF Len(s) < k THEN Len(s) ELSE k)
\* Iterator::filter(|c| c != ch)
RECURSIVE FilterNot(_, _)
FilterNot(s, ch) ==
    IF s = <<>> THEN <<>>
    ELSE IF Head(s) = ch THEN FilterNot(Tail(s), ch)
         ELSE <<Head(s)>> \o FilterNot(Tail(s), ch)

\* The branch name create_workpad derives from the trimmed title.
BranchName(trimmed, n) ==
    LET slug == slugify(trimmed)
    IN  IF slug = <<>>
        THEN <<"workpad/">> \o Take(FilterNot(WorkpadIdChars(n), "-"), 8)
        ELSE <<"workpad/">> \o slug

\* get_state_dir / get_repos_dir, as path components.
StateDir == <<"home", ".sologit", "state">>
ReposDir == <<"home", ".sologit", "data", "repos">>
\* Path::starts_with: a whole-component prefix.
StartsWith(p, base) == Len(base) <= Len(p) /\ SubSeq(p, 1, Len(base)) = base

\* ------------------------------------------------------------------ diffs
\* The order str::cmp gives the file names the model uses.
FileOrder == <<"a.txt", "b.txt", "c.txt">>
FileRank(f) == CHOOSE i \in DOMAIN FileOrder : FileOrder[i] = f
\* Vec::sort on a duplicate-free set of file names.
RECURSIVE SortFiles(_)
SortFiles(S) ==
    IF S = {} THEN <<>>
    ELSE LET m == CHOOSE f \in S : \A g \in S : FileRank(f) <= FileRank(g)
         IN  <<m>> \o SortFiles(S \ {m})

\* parse_changed_files: the paths of the "+++ b/" and "--- a/" lines.
parse_changed_files(diff) ==
    SortFiles({diff[i][2] : i \in {j \in DOMAIN diff : diff[j][1] \in {"+++ b/", "--- a/"}}})

\* diff.trim().is_empty(): no line holds anything but whitespace.
DiffIsBlank(diff) == \A i \in DOMAIN diff : diff[i][1] = "" /\ diff[i][2] = ""

\* ------------------------------------------------------------------ state
VARIABLES
    repositories,   \* repositories/<repo_id>.json
    workpads,       \* workpads/<workpad_id>.json
    test_runs,      \* test_runs/<run_id>.json
    ai_operations,  \* ai_operations/<operation_id>.json
    promotions,     \* promotions/<record_id>.json
    global,         \* global.json: a function on {"global"}, or on {} when absent
    patches,        \* patches/<workpad_id>-<uuid>.diff
    notes,          \* workpads/<workpad_id>-notes.log
    rollback_log,   \* workpads/<workpad_id>-rollback.log
    dirs,           \* the repository working directories that exist
    uuid,           \* identifiers handed out so far, per kind
    last,           \* the command that ran last, and whether it returned Ok
    created,        \* per workpad ever created: its repository and the base commit captured
    fault,          \* the file operations that failed so far, by the step they failed in
    calls,          \* the commands under way, file operation by file operation
    \* One document's file as write_json and read_json see it, system call by
    \* system call.
    files,          \* the directory: file name ("doc", "tmp") -> inode
    inodes,         \* inode -> content, a sequence of chunks
    writers,        \* per write_json call: where it is, its open file and offset
    observed        \* what the last read_json read

vars == <<repositories, workpads, test_runs, ai_operations, promotions, global,
          patches, notes, rollback_log, dirs, uuid, last, created, fault, calls,
          files, inodes, writers, observed>>
docs == <<repositories, workpads, test_runs, ai_operations, promotions, global>>
\* The state the commands work on, and the state of the file-level view.
store == <<repositories, workpads, test_runs, ai_operations, promotions, global,
           patches, notes, rollback_log, dirs, uuid, last, created, fault, calls>>
io == <<files, inodes, writers, observed>>

\* ------------------------------------------------------ document store
EmptyDocs == [k \in {} |-> NoneVal]
\* write_json: the document at key k becomes v.
Put(f, k, v) == [x \in DOMAIN f \cup {k} |-> IF x = k THEN v ELSE f[x]]
\* fs::remove_file on every key in K.
Remove(f, K) == [x \in DOMAIN f \ K |-> f[x]]
\* Vec::insert(0, x)
InsertFront(s, x) == <<x>> \o s
\* Vec::contains
Contains(s, x) == \E i \in DOMAIN s : s[i] = x
\* Vec::retain(|id| id != x)
RECURSIVE Retain(_, _)
Retain(s, x) ==
    IF s = <<>> THEN <<>>
    ELSE IF Head(s) = x THEN Retain(Tail(s), x)
         ELSE <<Head(s)>> \o Retain(Tail(s), x)
\* Vec::first().cloned()
First(s) == IF s = <<>> THEN NoneVal ELSE s[1]

\* Mutant: the defaults count the command that creates the session.
DefaultGlobalCounting ==
    [version |-> "0.4.0", active_repo |-> NoneVal, active_workpad |-> NoneVal,
     total_operations |-> 1, total_cost_usd |-> 0]
\* load_global_state: the stored session, or the defaults when absent.
DefaultGlobal ==
    [version |-> "0.4.0", active_repo |-> NoneVal, active_workpad |-> NoneVal,
     total_operations |-> 0, total_cost_usd |-> 0]
load_global_state == IF "global" \in DOMAIN global THEN global["global"] ELSE DefaultGlobal
\* save_global_state
save_global_state(g) == global' = [k \in {"global"} |-> g]

\* What a command reports: its name, its id argument, Ok or Err, and the id
\* of the document it returned (NoneVal for deletes and errors).
Outcome(cmd, arg, ok, id) == [cmd |-> cmd, arg |-> arg, ok |-> ok, id |-> id]
\* A command that returns Err before it writes anything.
Fails(cmd, arg) ==
    /\ last' = Outcome(cmd, arg, FALSE, NoneVal)
    /\ UNCHANGED <<docs, patches, notes, rollback_log, dirs, uuid, created>>
\* A run goes on while fewer than n commands have succeeded.
Running(n) == load_global_state.total_operations < n
\* One command of a run of at most n successful commands, every file
\* operation of which succeeds.
Step(n, command) == Running(n) /\ command /\ UNCHANGED <<fault, calls, io>>
\* One command that a failing file operation cuts short, while fewer than
\* MaxFaults file operations have failed.
FaultStep(command) == Len(fault) < MaxFaults /\ command /\ UNCHANGED <<calls, io>>

\* The processes that run commands on the state directory at the same time,
\* and the commands they start in one run.
NumProcs == 2
MaxCalls == 3
\* The commands started in one run of patches, rollbacks and deletions.
MaxPatchCalls == 2
Procs == 1..NumProcs
\* A process that runs no command: nothing loaded, nothing generated.
Idle ==
    [cmd |-> "none", pc |-> "idle", arg |-> NoneVal, input |-> NoneVal,
     workpad |-> NoneVal, repo |-> NoneVal, g |-> NoneVal, id |-> NoneVal,
     removed |-> {}]

InitStore ==
    /\ repositories = EmptyDocs
    /\ workpads = EmptyDocs
    /\ test_runs = EmptyDocs
    /\ ai_operations = EmptyDocs
    /\ promotions = EmptyDocs
    /\ global = EmptyDocs
    /\ patches = EmptyDocs
    /\ notes = EmptyDocs
    /\ rollback_log = EmptyDocs
    /\ dirs = {}
    /\ uuid = [repo |-> 0, wp |-> 0, run |-> 0, op |-> 0, pr |-> 0, commit |-> 0, patch |-> 0]
    /\ last = Outcome("none", NoneVal, TRUE, NoneVal)
    /\ created = EmptyDocs
    /\ fault = <<>>
    /\ calls = [started |-> 0, by |-> [p \in Procs |-> Idle]]

\* No write_json call is under way in the file-level view.
InitIo ==
    /\ files = EmptyDocs
    /\ inodes = EmptyDocs
    /\ writers = EmptyDocs
    /\ observed = [kind |-> "none", content |-> <<>>]

Init == InitStore /\ InitIo

\* ------------------------------------------------------ create_repository
\* The directory a new repository works in: the custom path when one is given
\* and does not trim to empty, else <repos dir>/<repo_id>.
RepoPath(path, repo_id) ==
    IF path # NoneVal /\ path # <<>> THEN path ELSE ReposDir \o <<repo_id>>

NewRepository(repo_id, trimmed, repo_path) ==
    [repo_id |-> repo_id, name |-> trimmed, path |-> repo_path, trunk_branch |-> "main",
     current_commit |-> NoneVal, workpads |-> <<>>, total_commits |-> 0]

\* Mutant: the session keeps the workpad that was active.
SessionWithRepositoryKeepingWorkpad(g, repo_id) ==
    [g EXCEPT !.active_repo = repo_id, !.total_operations = @ + 1]
\* The session as create_repository saves it.
SessionWithRepository(g, repo_id) ==
    [g EXCEPT !.active_repo = repo_id,
              !.active_workpad = NoneVal,
              !.total_operations = @ + 1]

create_repository(name, path) ==
    LET trimmed == Trim(name)
        repo_id == RepoId(uuid.repo + 1)
        repo    == NewRepository(repo_id, trimmed, RepoPath(path, repo_id))
        g       == load_global_state
    IN  IF trimmed = <<>>
        THEN Fails("create_repository", NoneVal)
        ELSE /\ uuid.repo < MaxRepos
             /\ uuid' = [uuid EXCEPT !.repo = @ + 1]
             /\ dirs' = dirs \cup {repo.path}
             /\ repositories' = Put(repositories, repo_id, repo)
             /\ save_global_state(SessionWithRepository(g, repo_id))
             /\ last' = Outcome("create_repository", NoneVal, TRUE, repo_id)
             /\ UNCHANGED <<workpads, test_runs, ai_operations, promotions,
                            patches, notes, rollback_log, created>>

\* --------------------------------------------------------- create_workpad
\* Mutant: the base commit is always the trunk branch name.
BaseCommitTrunkOnly(repo) == repo.trunk_branch
\* base_commit: the repository's current commit, or its trunk branch name.
BaseCommit(repo) ==
    IF repo.current_commit # NoneVal THEN repo.current_commit ELSE repo.trunk_branch

NewWorkpad(repo, n, trimmed) ==
    [workpad_id |-> WorkpadId(n), repo_id |-> repo.repo_id, title |-> trimmed,
     status |-> "draft", branch_name |-> BranchName(trimmed, n),
     base_commit |-> BaseCommit(repo), current_commit |-> repo.current_commit,
     promoted_at |-> NoneVal, test_runs |-> <<>>, ai_operations |-> <<>>,
     patches_applied |-> 0, files_changed |-> <<>>]

\* Mutant: the new id goes to the end of the repository's list.
RepoWithWorkpadAppended(repo, workpad_id) ==
    IF Contains(repo.workpads, workpad_id) THEN repo
    ELSE [repo EXCEPT !.workpads = Append(@, workpad_id)]
\* The repository as create_workpad saves it: the new id first in its list.
RepoWithWorkpad(repo, workpad_id) ==
    IF Contains(repo.workpads, workpad_id) THEN repo
    ELSE [repo EXCEPT !.workpads = InsertFront(@, workpad_id)]

create_workpad(repo_id, title) ==
    LET trimmed == Trim(title) IN
    IF trimmed = <<>> \/ repo_id \notin DOMAIN repositories
    THEN Fails("create_workpad", repo_id)
    ELSE LET repo    == repositories[repo_id]
             n       == uuid.wp + 1
             workpad == NewWorkpad(repo, n, trimmed)
             g       == load_global_state
         IN  /\ uuid.wp < MaxWorkpads
             /\ uuid' = [uuid EXCEPT !.wp = n]
             /\ workpads' = Put(workpads, workpad.workpad_id, workpad)
             /\ repositories' = Put(repositories, repo_id,
                                    RepoWithWorkpad(repo, workpad.workpad_id))
             /\ save_global_state([g EXCEPT !.active_repo = repo.repo_id,
                                            !.active_workpad = workpad.workpad_id,
                                            !.total_operations = @ + 1])
             /\ created' = Put(created, workpad.workpad_id,
                               [repo_id |-> repo_id,
                                base_commit |-> IF repo.current_commit = NoneVal
                                                THEN repo.trunk_branch
                                                ELSE repo.current_commit])
             /\ last' = Outcome("create_workpad", repo_id, TRUE, workpad.workpad_id)
             /\ UNCHANGED <<test_runs, ai_operations, promotions, patches, notes,
                            rollback_log, dirs>>

\* --------------------------------------------------------------- run_tests
NewTestRun(run_id, workpad_id, trimmed) ==
    [run_id |-> run_id, workpad_id |-> workpad_id, target |-> trimmed,
     status |-> "passed", total_tests |-> 20, passed |-> 20,
     failed |-> 0, skipped |-> 0, duration_ms |-> 1500]

\* Mutant: the new run id goes to the end of the workpad's list.
WorkpadAfterTestsAppended(workpad, run_id) ==
    [workpad EXCEPT !.test_runs = Append(@, run_id), !.status = "passed"]
\* The workpad as run_tests saves it.
WorkpadAfterTests(workpad, run_id) ==
    [workpad EXCEPT !.test_runs = InsertFront(@, run_id), !.status = "passed"]

run_tests(workpad_id, target) ==
    LET trimmed == Trim(target) IN
    IF trimmed = <<>> \/ workpad_id \notin DOMAIN workpads
    THEN Fails("run_tests", workpad_id)
    ELSE LET run_id   == RunId(uuid.run + 1)
             test_run == NewTestRun(run_id, workpad_id, trimmed)
             workpad  == WorkpadAfterTests(workpads[workpad_id], run_id)
             g        == load_global_state
         IN  /\ uuid.run < MaxRuns
             /\ uuid' = [uuid EXCEPT !.run = @ + 1]
             /\ test_runs' = Put(test_runs, run_id, test_run)
             /\ workpads' = Put(workpads, workpad.workpad_id, workpad)
             /\ save_global_state([g EXCEPT !.total_operations = @ + 1,
                                            !.active_workpad = workpad.workpad_id])
             /\ last' = Outcome("run_tests", workpad_id, TRUE, run_id)
             /\ UNCHANGED <<repositories, ai_operations, promotions, patches, notes,
                            rollback_log, dirs, created>>

\* --------------------------------------------------------- promote_workpad
\* The workpad as promote_workpad saves it.
PromotedWorkpad(workpad) ==
    [workpad EXCEPT !.status = "promoted", !.promoted_at = Now]

\* The repository as promote_workpad saves it: trunk advanced to the workpad's
\* commit when it has one.
RepoAfterPromotion(repo, workpad) ==
    IF workpad.current_commit # NoneVal
    THEN [repo EXCEPT !.current_commit = workpad.current_commit]
    ELSE repo

\* Mutant: the record names no test run as evidence.
NewPromotionWithoutEvidence(record_id, workpad) ==
    [record_id |-> record_id, repo_id |-> workpad.repo_id,
     workpad_id |-> workpad.workpad_id, decision |-> "manual", can_promote |-> TRUE,
     auto_promote_requested |-> FALSE, promoted |-> TRUE,
     commit_hash |-> workpad.current_commit,
     message |-> <<"Workpad '", workpad.title, "' promoted to trunk">>,
     test_run_id |-> NoneVal, ci_status |-> NoneVal, ci_message |-> NoneVal]
NewPromotion(record_id, workpad) ==
    [record_id |-> record_id, repo_id |-> workpad.repo_id,
     workpad_id |-> workpad.workpad_id, decision |-> "manual", can_promote |-> TRUE,
     auto_promote_requested |-> FALSE, promoted |-> TRUE,
     commit_hash |-> workpad.current_commit,
     message |-> <<"Workpad '", workpad.title, "' promoted to trunk">>,
     test_run_id |-> First(workpad.test_runs), ci_status |-> NoneVal,
     ci_message |-> NoneVal]

promote_workpad(workpad_id) ==
    IF workpad_id \notin DOMAIN workpads
    THEN Fails("promote_workpad", workpad_id)
    ELSE IF workpads[workpad_id].repo_id \notin DOMAIN repositories
    THEN Fails("promote_workpad", workpad_id)
    ELSE LET workpad   == PromotedWorkpad(workpads[workpad_id])
             repo      == RepoAfterPromotion(repositories[workpad.repo_id], workpad)
             record_id == RecordId(uuid.pr + 1)
             g         == load_global_state
         IN  /\ uuid' = [uuid EXCEPT !.pr = @ + 1]
             /\ workpads' = Put(workpads, workpad.workpad_id, workpad)
             /\ repositories' = Put(repositories, repo.repo_id, repo)
             /\ promotions' = Put(promotions, record_id, NewPromotion(record_id, workpad))
             /\ save_global_state(
                    [g EXCEPT !.active_workpad =
                                  IF @ = workpad.workpad_id THEN NoneVal ELSE @,
                              !.total_operations = @ + 1])
             /\ last' = Outcome("promote_workpad", workpad_id, TRUE, record_id)
             /\ UNCHANGED <<test_runs, ai_operations, patches, notes, rollback_log,
                            dirs, created>>

\* ------------------------------------------------------------- apply_patch
\* Mutant: the diff's paths replace the old list.
MergedFilesReplacing(files_changed, diff) == parse_changed_files(diff)
\* files_changed after a patch: the old list and the diff's paths, without
\* duplicates, sorted.
MergedFiles(files_changed, diff) ==
    SortFiles(Range(files_changed) \cup Range(parse_changed_files(diff)))

\* The workpad as apply_patch saves it.
PatchedWorkpad(workpad, diff, commit) ==
    [workpad EXCEPT !.patches_applied = @ + 1,
                    !.files_changed = MergedFiles(@, diff),
                    !.status = "in_progress",
                    !.current_commit = commit]

\* An append to a per-workpad log (OpenOptions create + append).
Append2(log, workpad_id, entry) ==
    Put(log, workpad_id,
        IF workpad_id \in DOMAIN log THEN Append(log[workpad_id], entry) ELSE <<entry>>)

apply_patch(workpad_id, message, diff) ==
    IF DiffIsBlank(diff) \/ workpad_id \notin DOMAIN workpads
    THEN Fails("apply_patch", workpad_id)
    ELSE LET patch_path == PatchId(workpad_id, uuid.patch + 1)
             workpad    == PatchedWorkpad(workpads[workpad_id], diff,
                                          CommitId(uuid.commit + 1))
             g          == load_global_state
         IN  /\ uuid.commit < MaxCommits
             /\ uuid' = [uuid EXCEPT !.commit = @ + 1, !.patch = @ + 1]
             /\ patches' = Put(patches, patch_path, diff)
             /\ workpads' = Put(workpads, workpad.workpad_id, workpad)
             /\ notes' = Append2(notes, workpad.workpad_id,
                                 [message |-> message, diff |-> diff, patch |-> patch_path])
             /\ save_global_state([g EXCEPT !.total_operations = @ + 1,
                                            !.active_workpad = workpad.workpad_id])
             /\ last' = Outcome("apply_patch", workpad_id, TRUE, workpad.workpad_id)
             /\ UNCHANGED <<repositories, test_runs, ai_operations, promotions,
                            rollback_log, dirs, created>>

\* Mutant: the workpad is saved before the patch file is stored.
PatchStepsSavingFirst ==
    <<"save_workpad", "store_patch_diff", "load_global_state", "save_global_state">>
\* The fallible steps of apply_patch once the workpad is loaded, in the order
\* the code takes them (the append to the notes log ignores its own failure).
PatchSteps ==
    <<"store_patch_diff", "save_workpad", "load_global_state", "save_global_state">>
\* The steps that came to their end before the one that failed.
DoneBefore(steps, step) ==
    {steps[i] : i \in {j \in DOMAIN steps : \E k \in DOMAIN steps : steps[k] = step /\ j < k}}

\* apply_patch when the given step returns Err: the `?` returns it to the caller
\* and what the earlier steps wrote stays written.
apply_patch_failing(workpad_id, message, diff, step) ==
    LET done       == DoneBefore(PatchSteps, step)
        patch_path == PatchId(workpad_id, uuid.patch + 1)
        stored     == "store_patch_diff" \in done
        saved      == "save_workpad" \in done
        workpad    == PatchedWorkpad(workpads[workpad_id], diff, CommitId(uuid.commit + 1))
    IN  /\ ~DiffIsBlank(diff)
        /\ workpad_id \in DOMAIN workpads
        /\ saved => uuid.commit < MaxCommits
        /\ uuid' = [uuid EXCEPT !.patch = IF stored THEN @ + 1 ELSE @,
                                !.commit = IF saved THEN @ + 1 ELSE @]
        /\ patches' = IF stored THEN Put(patches, patch_path, diff) ELSE patches
        /\ workpads' = IF saved THEN Put(workpads, workpad.workpad_id, workpad) ELSE workpads
        /\ notes' = IF saved
                    THEN Append2(notes, workpad.workpad_id,
                                 [message |-> message, diff |-> diff, patch |-> patch_path])
                    ELSE notes
        /\ fault' = Append(fault, step)
        /\ last' = Outcome("apply_patch", workpad_id, FALSE, NoneVal)
        /\ UNCHANGED <<repositories, test_runs, ai_operations, promotions, global,
                       rollback_log, dirs, created>>

\* Mutant: the promotion record is written before the repository is saved.
PromoteStepsRecordFirst ==
    <<"save_workpad", "write_promotion", "save_repository",
      "load_global_state", "save_global_state">>
\* The fallible steps of promote_workpad once workpad and repository are
\* loaded, in the order the code takes them.
PromoteSteps ==
    <<"save_workpad", "save_repository", "write_promotion",
      "load_global_state", "save_global_state">>

\* promote_workpad when the given step returns Err.
promote_workpad_failing(workpad_id, step) ==
    LET done      == DoneBefore(PromoteSteps, step)
        workpad   == PromotedWorkpad(workpads[workpad_id])
        repo      == RepoAfterPromotion(repositories[workpad.repo_id], workpad)
        record_id == RecordId(uuid.pr + 1)
        recorded  == "write_promotion" \in done
    IN  /\ workpad_id \in DOMAIN workpads
        /\ workpads[workpad_id].repo_id \in DOMAIN repositories
        /\ uuid' = [uuid EXCEPT !.pr = IF recorded THEN @ + 1 ELSE @]
        /\ workpads' = IF "save_workpad" \in done
                       THEN Put(workpads, workpad.workpad_id, workpad)
                       ELSE workpads
        /\ repositories' = IF "save_repository" \in done
                           THEN Put(repositories, repo.repo_id, repo)
                           ELSE repositories
        /\ promotions' = IF recorded
                         THEN Put(promotions, record_id, NewPromotion(record_id, workpad))
                         ELSE promotions
        /\ fault' = Append(fault, step)
        /\ last' = Outcome("promote_workpad", workpad_id, FALSE, NoneVal)
        /\ UNCHANGED <<test_runs, ai_operations, global, patches, notes, rollback_log,
                       dirs, created>>

\* Mutant: the repository's list is saved before the workpad document is
\* written.
CreateWorkpadStepsListingFirst ==
    <<"save_repository", "write_workpad", "load_global_state", "save_global_state">>
\* The fallible steps of create_workpad once the repository is loaded, in the
\* order the code takes them.
CreateWorkpadSteps ==
    <<"write_workpad", "save_repository", "load_global_state", "save_global_state">>

\* create_workpad when the given step returns Err, or the process stops
\* before it.
create_workpad_failing(repo_id, title, step) ==
    LET done    == DoneBefore(CreateWorkpadSteps, step)
        repo    == repositories[repo_id]
        n       == uuid.wp + 1
        workpad == NewWorkpad(repo, n, Trim(title))
        written == "write_workpad" \in done
    IN  /\ Trim(title) # <<>>
        /\ repo_id \in DOMAIN repositories
        /\ uuid.wp < MaxWorkpads
        /\ uuid' = [uuid EXCEPT !.wp = IF written THEN n ELSE @]
        /\ workpads' = IF written THEN Put(workpads, workpad.workpad_id, workpad)
                       ELSE workpads
        /\ created' = IF written
                      THEN Put(created, workpad.workpad_id,
                               [repo_id |-> repo_id, base_commit |-> workpad.base_commit])
                      ELSE created
        /\ repositories' = IF "save_repository" \in done
                           THEN Put(repositories, repo_id,
                                    RepoWithWorkpad(repo, workpad.workpad_id))
                           ELSE repositories
        /\ fault' = Append(fault, step)
        /\ last' = Outcome("create_workpad", repo_id, FALSE, NoneVal)
        /\ UNCHANGED <<test_runs, ai_operations, promotions, global, patches, notes,
                       rollback_log, dirs>>

\* ---------------------------------------------------- trigger_ai_operation
\* Mutant: the token count is rounded down.
TokensUsedFloor(prompt) == Len(prompt) \div 4
\* (prompt.len() as f64 / 4.0).ceil()
TokensUsed(prompt) == (Len(prompt) + 3) \div 4
\* tokens_used * 0.00002, in units of 0.00001 USD.
CostOf(tokens) == tokens * 2

NewAIOperation(operation_id, workpad_opt, prompt) ==
    [operation_id |-> operation_id, workpad_id |-> workpad_opt,
     operation_type |-> "prompt", status |-> "completed", model |-> "gpt-4",
     prompt |-> prompt, response |-> "AI orchestration placeholder response",
     cost_usd |-> CostOf(TokensUsed(prompt)), tokens_used |-> TokensUsed(prompt),
     error |-> NoneVal]

trigger_ai_operation(workpad_id, prompt) ==
    LET workpad_opt == IF workpad_id = "" THEN NoneVal ELSE workpad_id IN
    IF Trim(prompt) = <<>> \/ (workpad_opt # NoneVal /\ workpad_opt \notin DOMAIN workpads)
    THEN Fails("trigger_ai_operation", workpad_id)
    ELSE LET operation_id == OperationId(uuid.op + 1)
             operation    == NewAIOperation(operation_id, workpad_opt, prompt)
             g            == load_global_state
         IN  /\ uuid.op < MaxAiOps
             /\ uuid' = [uuid EXCEPT !.op = @ + 1]
             /\ ai_operations' = Put(ai_operations, operation_id, operation)
             /\ workpads' =
                    IF workpad_opt # NoneVal
                    THEN Put(workpads, workpad_opt,
                             [workpads[workpad_opt] EXCEPT
                                  !.ai_operations = InsertFront(@, operation_id)])
                    ELSE workpads
             /\ save_global_state([g EXCEPT !.total_operations = @ + 1,
                                            !.total_cost_usd = @ + operation.cost_usd])
             /\ last' = Outcome("trigger_ai_operation", workpad_id, TRUE, operation_id)
             /\ UNCHANGED <<repositories, test_runs, promotions, patches, notes,
                            rollback_log, dirs, created>>

\* ---------------------------------------------------------- delete_workpad
\* Mutant: deleting a workpad also resets the repository's trunk commit.
RepoWithoutWorkpadOrCommit(repo, workpad_id) ==
    [repo EXCEPT !.workpads = Retain(@, workpad_id), !.current_commit = NoneVal]
\* Mutant: deleting a workpad empties the repository's list.
RepoWithoutAnyWorkpad(repo, workpad_id) == [repo EXCEPT !.workpads = <<>>]
\* The repository as delete_workpad saves it.
RepoWithoutWorkpad(repo, workpad_id) ==
    [repo EXCEPT !.workpads = Retain(@, workpad_id)]

delete_workpad(workpad_id) ==
    IF workpad_id \notin DOMAIN workpads
    THEN Fails("delete_workpad", workpad_id)
    ELSE LET workpad == workpads[workpad_id]
             g       == load_global_state
         IN  IF workpad.repo_id \notin DOMAIN repositories
             THEN \* the workpad file is already removed when load_repository fails
                  /\ workpads' = Remove(workpads, {workpad_id})
                  /\ last' = Outcome("delete_workpad", workpad_id, FALSE, NoneVal)
                  /\ UNCHANGED <<repositories, test_runs, ai_operations, promotions,
                                 global, patches, notes, rollback_log, dirs, uuid,
                                 created>>
             ELSE /\ workpads' = Remove(workpads, {workpad_id})
                  /\ repositories' =
                         Put(repositories, workpad.repo_id,
                             RepoWithoutWorkpad(repositories[workpad.repo_id], workpad_id))
                  /\ save_global_state(
                         [g EXCEPT !.active_workpad = IF @ = workpad_id THEN NoneVal ELSE @,
                                   !.total_operations = @ + 1])
                  /\ last' = Outcome("delete_workpad", workpad_id, TRUE, NoneVal)
                  /\ UNCHANGED <<test_runs, ai_operations, promotions, patches, notes,
                                 rollback_log, dirs, uuid, created>>

\* -------------------------------------------------------- rollback_workpad
\* Mutant: a rollback that forgets to restore current_commit.
RolledBackWorkpadKeepingCommit(workpad) ==
    [workpad EXCEPT !.status = "draft",
                    !.patches_applied = 0,
                    !.files_changed = <<>>,
                    !.test_runs = <<>>]
\* Mutant: a rollback that also clears the AI operation history.
RolledBackWorkpadClearingAi(workpad) ==
    [workpad EXCEPT !.status = "draft",
                    !.current_commit = workpad.base_commit,
                    !.patches_applied = 0,
                    !.files_changed = <<>>,
                    !.test_runs = <<>>,
                    !.ai_operations = <<>>]
\* The workpad as rollback_workpad saves it.
RolledBackWorkpad(workpad) ==
    [workpad EXCEPT !.status = "draft",
                    !.current_commit = workpad.base_commit,
                    !.patches_applied = 0,
                    !.files_changed = <<>>,
                    !.test_runs = <<>>]

rollback_workpad(workpad_id, reason) ==
    IF workpad_id \notin DOMAIN workpads
    THEN Fails("rollback_workpad", workpad_id)
    ELSE LET workpad == RolledBackWorkpad(workpads[workpad_id])
             g       == load_global_state
         IN  /\ rollback_log' = IF reason # NoneVal
                                THEN Append2(rollback_log, workpad.workpad_id, reason)
                                ELSE rollback_log
             /\ workpads' = Put(workpads, workpad.workpad_id, workpad)
             /\ save_global_state([g EXCEPT !.total_operations = @ + 1,
                                            !.active_workpad = workpad.workpad_id])
             /\ last' = Outcome("rollback_workpad", workpad_id, TRUE, workpad.workpad_id)
             /\ UNCHANGED <<repositories, test_runs, ai_operations, promotions, patches,
                            notes, dirs, uuid, created>>

\* ------------------------------------------------------- delete_repository
\* Mutant: the cascade compares the workpad's own id with repo_id.
RemovedWorkpadsByOwnId(repo_id) ==
    {w \in DOMAIN workpads : workpads[w].workpad_id = repo_id}
\* removed_workpads: the ids of the stored workpads whose repo_id is repo_id.
RemovedWorkpads(repo_id) ==
    {w \in DOMAIN workpads : workpads[w].repo_id = repo_id}
\* The test runs / AI operations the cascade removes: those whose workpad_id
\* is one of the removed workpads.
\* Mutant: the cascade removes every test run.
RemovedTestRunsOfAll(removed_workpads) == DOMAIN test_runs
RemovedTestRuns(removed_workpads) ==
    {t \in DOMAIN test_runs : test_runs[t].workpad_id \in removed_workpads}
RemovedAIOperations(removed_workpads) ==
    {o \in DOMAIN ai_operations : ai_operations[o].workpad_id \in removed_workpads}
\* Mutant: the cascade removes every promotion record.
RemovedPromotionsOfAll(repo_id) == DOMAIN promotions
RemovedPromotions(repo_id) ==
    {p \in DOMAIN promotions : promotions[p].repo_id = repo_id}
\* Mutant: the session keeps its active workpad when the cascade removed it.
KeptIfRemoved(pointer, removed_workpads) == pointer
\* The session's active_workpad as delete_repository leaves it: unset when it
\* names one of the removed workpads.
ClearedIfRemoved(pointer, removed_workpads) ==
    IF pointer \in removed_workpads THEN NoneVal ELSE pointer
\* remove_dir_all(repo_path), only for an existing path under the repos dir.
DirsAfterRemoval(repo_path) ==
    IF StartsWith(repo_path, ReposDir) /\ repo_path \in dirs
    THEN {d \in dirs : ~StartsWith(d, repo_path)}
    ELSE dirs

delete_repository(repo_id) ==
    IF repo_id \notin DOMAIN repositories
    THEN Fails("delete_repository", repo_id)
    ELSE LET repo             == repositories[repo_id]
             removed_workpads == RemovedWorkpads(repo_id)
             g                == load_global_state
         IN  /\ repositories' = Remove(repositories, {repo_id})
             /\ workpads' = Remove(workpads, removed_workpads)
             /\ test_runs' = Remove(test_runs, RemovedTestRuns(removed_workpads))
             /\ ai_operations' = Remove(ai_operations, RemovedAIOperations(removed_workpads))
             /\ promotions' = Remove(promotions, RemovedPromotions(repo_id))
             /\ dirs' = DirsAfterRemoval(repo.path)
             /\ save_global_state(
                    [g EXCEPT !.active_repo = IF @ = repo_id THEN NoneVal ELSE @,
                              !.active_workpad = ClearedIfRemoved(@, removed_workpads),
                              !.total_operations = @ + 1])
             /\ last' = Outcome("delete_repository", repo_id, TRUE, NoneVal)
             /\ UNCHANGED <<patches, notes, rollback_log, uuid, created>>

\* ------------------------------------------------------------------ inputs
Names == {<<"D", "e", "m", "o">>, <<" ">>}
RepoPaths == {NoneVal}
Titles == {<<" ", "F", "i", "x", " ", "b", "u", "g">>, <<" ", " ">>}
Targets == {<<"u", "n", "i", "t">>, <<" ">>}
Prompts == {<<"h", "e", "l", "l", "o">>, <<" ">>}
Messages == {"m"}
Diffs == { << <<"--- a/", "b.txt">>, <<"+++ b/", "a.txt">>, <<"+", "x">> >>,
           << <<"--- a/", "c.txt">>, <<"+++ b/", "c.txt">>, <<"-", "y">> >>,
           <<>> }
Reasons == {NoneVal, "r"}
\* The ids a caller can pass: those of stored documents, and one that names none.
RepoArgs == DOMAIN repositories \cup {RepoId(0)}
WorkpadArgs == DOMAIN workpads \cup {WorkpadId(0)}
\* The inputs that pass every validation.
NonBlank(S) == {s \in S : Trim(s) # <<>>}
ValidDiffs == {d \in Diffs : ~DiffIsBlank(d)}

\* One command, run from its call to its return, its inputs drawn from the
\* given sets.
CreateRepository(names) ==
    \E name \in names, path \in RepoPaths : create_repository(name, path)
DeleteRepository(repoArgs) ==
    \E r \in repoArgs : delete_repository(r)
CreateWorkpad(repoArgs, titles) ==
    \E r \in repoArgs, title \in titles : create_workpad(r, title)
ApplyPatch(workpadArgs, diffs) ==
    \E w \in workpadArgs, m \in Messages, diff \in diffs : apply_patch(w, m, diff)
RunTests(workpadArgs, targets) ==
    \E w \in workpadArgs, target \in targets : run_tests(w, target)
PromoteWorkpad(workpadArgs) ==
    \E w \in workpadArgs : promote_workpad(w)
RollbackWorkpad(workpadArgs) ==
    \E w \in workpadArgs, reason \in Reasons : rollback_workpad(w, reason)
DeleteWorkpad(workpadArgs) ==
    \E w \in workpadArgs : delete_workpad(w)
TriggerAiOperation(aiArgs, prompts) ==
    \E w \in aiArgs, prompt \in prompts : trigger_ai_operation(w, prompt)
\* apply_patch on a stored workpad with a diff that passes validation, one of
\* its file operations failing.
ApplyPatchFailing ==
    \E w \in DOMAIN workpads, m \in Messages, diff \in ValidDiffs, step \in Range(PatchSteps) :
        apply_patch_failing(w, m, diff, step)

\* promote_workpad on a stored workpad, create_workpad on a stored repository
\* with a title that passes validation, one of its file operations failing.
PromoteWorkpadFailing ==
    \E w \in DOMAIN workpads, step \in Range(PromoteSteps) :
        promote_workpad_failing(w, step)
CreateWorkpadFailing ==
    \E r \in DOMAIN repositories, title \in NonBlank(Titles),
       step \in Range(CreateWorkpadSteps) :
        create_workpad_failing(r, title, step)

\* Every title of at most MaxTitleLen characters: letters of both cases,
\* digits, punctuation and whitespace.
TitleAlphabet == {"a", "B", "7", "!", "-", " "}
AllTitles == UNION {[1..n -> TitleAlphabet] : n \in 0..MaxTitleLen}

\* Workpads are created with every title, one workpad stored at a time.
NextTitles ==
    \/ Step(MaxTitleOps, CreateRepository(NonBlank(Names)))
    \/ Step(MaxTitleOps, DOMAIN workpads = {} /\ CreateWorkpad(DOMAIN repositories, AllTitles))
    \/ Step(MaxTitleOps, DeleteWorkpad(DOMAIN workpads))
SpecTitles == Init /\ [][NextTitles]_vars

\* Any command with any input, valid or not, while the run goes on.
Next ==
    \/ Step(MaxOps, CreateRepository(Names))
    \/ Step(MaxOps, DeleteRepository(RepoArgs))
    \/ Step(MaxOps, CreateWorkpad(RepoArgs, Titles))
    \/ Step(MaxOps, ApplyPatch(WorkpadArgs, Diffs))
    \/ Step(MaxOps, RunTests(WorkpadArgs, Targets))
    \/ Step(MaxOps, PromoteWorkpad(WorkpadArgs))
    \/ Step(MaxOps, RollbackWorkpad(WorkpadArgs))
    \/ Step(MaxOps, DeleteWorkpad(WorkpadArgs))
    \/ Step(MaxOps, TriggerAiOperation(WorkpadArgs \cup {""}, Prompts))
\* Commands run one at a time, each to completion, with any input.
Spec == Init /\ [][Next]_vars

\* Commands on stored documents with inputs that pass validation: every one
\* succeeds.
NextValid ==
    \/ Step(MaxValidOps, CreateRepository(NonBlank(Names)))
    \/ Step(MaxValidOps, DeleteRepository(DOMAIN repositories))
    \/ Step(MaxValidOps, CreateWorkpad(DOMAIN repositories, NonBlank(Titles)))
    \/ Step(MaxValidOps, ApplyPatch(DOMAIN workpads, ValidDiffs))
    \/ Step(MaxValidOps, RunTests(DOMAIN workpads, NonBlank(Targets)))
    \/ Step(MaxValidOps, PromoteWorkpad(DOMAIN workpads))
    \/ Step(MaxValidOps, RollbackWorkpad(DOMAIN workpads))
    \/ Step(MaxValidOps, DeleteWorkpad(DOMAIN workpads))
    \/ Step(MaxValidOps, TriggerAiOperation(DOMAIN workpads \cup {""}, NonBlank(Prompts)))
\* Longer runs of commands that all succeed.
SpecValid == Init /\ [][NextValid]_vars

\* Commands whose input passes validation, and apply_patch with any input, a
\* file operation of which may fail.
NextFault ==
    \/ Step(MaxFaultOps, CreateRepository(NonBlank(Names)))
    \/ Step(MaxFaultOps, DeleteRepository(DOMAIN repositories))
    \/ Step(MaxFaultOps, CreateWorkpad(DOMAIN repositories, NonBlank(Titles)))
    \/ Step(MaxFaultOps, ApplyPatch(WorkpadArgs, Diffs))
    \/ Step(MaxFaultOps, RunTests(DOMAIN workpads, NonBlank(Targets)))
    \/ Step(MaxFaultOps, PromoteWorkpad(DOMAIN workpads))
    \/ Step(MaxFaultOps, RollbackWorkpad(DOMAIN workpads))
    \/ Step(MaxFaultOps, DeleteWorkpad(DOMAIN workpads))
    \/ Step(MaxFaultOps, TriggerAiOperation(DOMAIN workpads \cup {""}, NonBlank(Prompts)))
    \/ FaultStep(ApplyPatchFailing)
\* Commands run one at a time; a failing file operation ends a command early.
SpecFault == Init /\ [][NextFault]_vars

\* The paths a caller gives create_repository: none, an empty one, the managed
\* repositories root, the directory of the first repository, a directory
\* outside the root.
CustomPaths ==
    {NoneVal, <<>>, ReposDir, ReposDir \o <<RepoId(1)>>, <<"home", "proj">>}
CreateRepositoryAt(names, paths) ==
    \E name \in names, path \in paths : create_repository(name, path)
\* Repositories are created at any path and deleted; workpads are created in
\* them.
NextPaths ==
    \/ Step(MaxPathOps, CreateRepositoryAt(NonBlank(Names), CustomPaths))
    \/ Step(MaxPathOps, CreateWorkpad(DOMAIN repositories, NonBlank(Titles)))
    \/ Step(MaxPathOps, DeleteRepository(DOMAIN repositories))
SpecPaths == Init /\ [][NextPaths]_vars

\* Prompts of 5, 4, 1 and 0 characters; the last two are blank.
CostPrompts ==
    {<<"h", "e", "l", "l", "o">>, <<"a", "b", "c", "d">>, <<" ">>, <<>>}
\* AI operations with any workpad argument and prompt, on repositories and
\* workpads that are created and deleted.
NextCost ==
    \/ Step(MaxCostOps, CreateRepository(NonBlank(Names)))
    \/ Step(MaxCostOps, CreateWorkpad(DOMAIN repositories, NonBlank(Titles)))
    \/ Step(MaxCostOps, TriggerAiOperation(WorkpadArgs \cup {""}, CostPrompts))
    \/ Step(MaxCostOps, DeleteRepository(DOMAIN repositories))
SpecCost == Init /\ [][NextCost]_vars

\* The commands that create, patch, promote and delete workpads, with input
\* that passes validation; a file operation of promote_workpad or
\* create_workpad may fail.
NextPartial ==
    \/ Step(MaxFaultOps, CreateRepository(NonBlank(Names)))
    \/ Step(MaxFaultOps, CreateWorkpad(DOMAIN repositories, NonBlank(Titles)))
    \/ Step(MaxFaultOps, ApplyPatch(DOMAIN workpads, ValidDiffs))
    \/ Step(MaxFaultOps, PromoteWorkpad(DOMAIN workpads))
    \/ Step(MaxFaultOps, DeleteWorkpad(DOMAIN workpads))
    \/ FaultStep(PromoteWorkpadFailing)
    \/ FaultStep(CreateWorkpadFailing)
\* Commands run one at a time; a failing file operation ends a promotion or a
\* workpad creation early.
SpecPartial == Init /\ [][NextPartial]_vars

\* ------------------------------------- commands, file operation by file operation
\* Nothing locks the state directory: commands of several processes read and
\* write its documents in any order.  One step is one document read, write or
\* removal (a log append goes with the document write next to it, and each
\* directory scan of delete_repository is one step).  Every file operation
\* succeeds; a command ends early only when a document it needs is not there.
StartName == <<"D", "e", "m", "o">>
StartTitle == <<" ", "F", "i", "x", " ", "b", "u", "g">>
StartDiff == << <<"--- a/", "b.txt">>, <<"+++ b/", "a.txt">>, <<"+", "x">> >>
StartRepo == NewRepository(RepoId(1), Trim(StartName), RepoPath(NoneVal, RepoId(1)))
StartWorkpad ==
    PatchedWorkpad(NewWorkpad(StartRepo, 1, Trim(StartTitle)), StartDiff, CommitId(1))

\* The store after create_repository, create_workpad and apply_patch: one
\* repository, one workpad with a commit of its own.
InitConc ==
    /\ repositories = [r \in {RepoId(1)} |-> RepoWithWorkpad(StartRepo, WorkpadId(1))]
    /\ workpads = [w \in {WorkpadId(1)} |-> StartWorkpad]
    /\ test_runs = EmptyDocs
    /\ ai_operations = EmptyDocs
    /\ promotions = EmptyDocs
    /\ global = [k \in {"global"} |->
                    [DefaultGlobal EXCEPT !.active_repo = RepoId(1),
                                          !.active_workpad = WorkpadId(1),
                                          !.total_operations = 3]]
    /\ patches = [f \in {PatchId(WorkpadId(1), 1)} |-> StartDiff]
    /\ notes = [w \in {WorkpadId(1)} |->
                   << [message |-> "m", diff |-> StartDiff,
                       patch |-> PatchId(WorkpadId(1), 1)] >>]
    /\ rollback_log = EmptyDocs
    /\ dirs = {StartRepo.path}
    /\ uuid = [repo |-> 1, wp |-> 1, run |-> 0, op |-> 0, pr |-> 0, commit |-> 1, patch |-> 1]
    /\ last = Outcome("apply_patch", WorkpadId(1), TRUE, WorkpadId(1))
    /\ created = [w \in {WorkpadId(1)} |-> [repo_id |-> RepoId(1), base_commit |-> "main"]]
    /\ fault = <<>>
    /\ calls = [started |-> 0, by |-> [p \in Procs |-> Idle]]
    /\ InitIo

\* The call of process p goes on as c; it returns.
Continue(p, c) == calls' = [calls EXCEPT !.by[p] = c]
Return(p) == calls' = [calls EXCEPT !.by[p] = Idle]
\* Process p is at step pc of command cmd.
At(p, cmd, pc) == calls.by[p].cmd = cmd /\ calls.by[p].pc = pc
AllReturned == \A p \in Procs : calls.by[p].pc = "idle"

\* A process calls a command with input that passes validation, while fewer
\* than n calls were made; its first step is first.
Call(n, p, cmd, arg, input, first) ==
    /\ calls.by[p].pc = "idle"
    /\ calls.started < n
    /\ calls' = [started |-> calls.started + 1,
                 by |-> [calls.by EXCEPT
                             ![p] = [Idle EXCEPT !.cmd = cmd, !.pc = first,
                                                 !.arg = arg, !.input = input]]]
    /\ UNCHANGED <<docs, patches, notes, rollback_log, dirs, uuid, last, created, fault>>

\* load_workpad / load_repository as the first step of a command: Err when the
\* document is not there.
LoadWorkpadStep(p, next) ==
    LET c == calls.by[p] IN
    /\ IF c.arg \in DOMAIN workpads
       THEN Continue(p, [c EXCEPT !.workpad = workpads[c.arg], !.pc = next])
       ELSE Return(p)
    /\ UNCHANGED <<docs, patches, notes, rollback_log, dirs, uuid, last, created, fault>>
LoadRepositoryStep(p, repo_id, next) ==
    LET c == calls.by[p] IN
    /\ IF repo_id \in DOMAIN repositories
       THEN Continue(p, [c EXCEPT !.repo = repositories[repo_id], !.pc = next])
       ELSE Return(p)
    /\ UNCHANGED <<docs, patches, notes, rollback_log, dirs, uuid, last, created, fault>>

\* create_workpad, step by step.
create_workpad_call(p) ==
    LET c == calls.by[p] IN
    \/ At(p, "create_workpad", "load_repository")
       /\ LoadRepositoryStep(p, c.arg, "write_workpad")
    \/ /\ At(p, "create_workpad", "write_workpad")
       /\ LET n       == uuid.wp + 1
              workpad == NewWorkpad(c.repo, n, Trim(c.input))
          IN  /\ uuid' = [uuid EXCEPT !.wp = n]
              /\ workpads' = Put(workpads, workpad.workpad_id, workpad)
              /\ created' = Put(created, workpad.workpad_id,
                                [repo_id |-> c.repo.repo_id,
                                 base_commit |-> workpad.base_commit])
              /\ Continue(p, [c EXCEPT !.id = workpad.workpad_id, !.pc = "save_repository"])
       /\ UNCHANGED <<repositories, test_runs, ai_operations, promotions, global,
                      patches, notes, rollback_log, dirs, last, fault>>
    \/ /\ At(p, "create_workpad", "save_repository")
       /\ repositories' = Put(repositories, c.repo.repo_id, RepoWithWorkpad(c.repo, c.id))
       /\ Continue(p, [c EXCEPT !.pc = "load_global_state"])
       /\ UNCHANGED <<workpads, test_runs, ai_operations, promotions, global,
                      patches, notes, rollback_log, dirs, uuid, last, created, fault>>

\* run_tests, step by step.
run_tests_call(p) ==
    LET c == calls.by[p] IN
    \/ At(p, "run_tests", "load_workpad")
       /\ LoadWorkpadStep(p, "write_test_run")
    \/ /\ At(p, "run_tests", "write_test_run")
       /\ LET run_id == RunId(uuid.run + 1) IN
          /\ uuid' = [uuid EXCEPT !.run = @ + 1]
          /\ test_runs' = Put(test_runs, run_id, NewTestRun(run_id, c.arg, Trim(c.input)))
          /\ Continue(p, [c EXCEPT !.id = run_id, !.pc = "save_workpad"])
       /\ UNCHANGED <<repositories, workpads, ai_operations, promotions, global,
                      patches, notes, rollback_log, dirs, last, created, fault>>
    \/ /\ At(p, "run_tests", "save_workpad")
       /\ workpads' = Put(workpads, c.workpad.workpad_id, WorkpadAfterTests(c.workpad, c.id))
       /\ Continue(p, [c EXCEPT !.pc = "load_global_state"])
       /\ UNCHANGED <<repositories, test_runs, ai_operations, promotions, global,
                      patches, notes, rollback_log, dirs, uuid, last, created, fault>>

\* promote_workpad, step by step.
promote_workpad_call(p) ==
    LET c == calls.by[p] IN
    \/ At(p, "promote_workpad", "load_workpad")
       /\ LoadWorkpadStep(p, "load_repository")
    \/ At(p, "promote_workpad", "load_repository")
       /\ LoadRepositoryStep(p, c.workpad.repo_id, "save_workpad")
    \/ /\ At(p, "promote_workpad", "save_workpad")
       /\ workpads' = Put(workpads, c.workpad.workpad_id, PromotedWorkpad(c.workpad))
       /\ Continue(p, [c EXCEPT !.workpad = PromotedWorkpad(c.workpad),
                                !.pc = "save_repository"])
       /\ UNCHANGED <<repositories, test_runs, ai_operations, promotions, global,
                      patches, notes, rollback_log, dirs, uuid, last, created, fault>>
    \/ /\ At(p, "promote_workpad", "save_repository")
       /\ repositories' = Put(repositories, c.repo.repo_id,
                              RepoAfterPromotion(c.repo, c.workpad))
       /\ Continue(p, [c EXCEPT !.pc = "write_promotion"])
       /\ UNCHANGED <<workpads, test_runs, ai_operations, promotions, global,
                      patches, notes, rollback_log, dirs, uuid, last, created, fault>>
    \/ /\ At(p, "promote_workpad", "write_promotion")
       /\ LET record_id == RecordId(uuid.pr + 1) IN
          /\ uuid' = [uuid EXCEPT !.pr = @ + 1]
          /\ promotions' = Put(promotions, record_id, NewPromotion(record_id, c.workpad))
          /\ Continue(p, [c EXCEPT !.id = record_id, !.pc = "load_global_state"])
       /\ UNCHANGED <<repositories, workpads, test_runs, ai_operations, global,
                      patches, notes, rollback_log, dirs, last, created, fault>>

\* apply_patch, step by step.
apply_patch_call(p) ==
    LET c == calls.by[p] IN
    \/ At(p, "apply_patch", "load_workpad")
       /\ LoadWorkpadStep(p, "store_patch_diff")
    \/ /\ At(p, "apply_patch", "store_patch_diff")
       /\ LET patch_path == PatchId(c.arg, uuid.patch + 1) IN
          /\ uuid' = [uuid EXCEPT !.patch = @ + 1]
          /\ patches' = Put(patches, patch_path, c.input)
          /\ Continue(p, [c EXCEPT !.id = patch_path, !.pc = "save_workpad"])
       /\ UNCHANGED <<docs, notes, rollback_log, dirs, last, created, fault>>
    \/ /\ At(p, "apply_patch", "save_workpad")
       /\ LET workpad == PatchedWorkpad(c.workpad, c.input, CommitId(uuid.commit + 1)) IN
          /\ uuid' = [uuid EXCEPT !.commit = @ + 1]
          /\ workpads' = Put(workpads, workpad.workpad_id, workpad)
          /\ notes' = Append2(notes, workpad.workpad_id,
                              [message |-> "m", diff |-> c.input, patch |-> c.id])
       /\ Continue(p, [c EXCEPT !.pc = "load_global_state"])
       /\ UNCHANGED <<repositories, test_runs, ai_operations, promotions, global,
                      patches, rollback_log, dirs, last, created, fault>>

\* trigger_ai_operation, step by step; with no workpad named it writes the
\* operation and the session only.
trigger_ai_operation_call(p) ==
    LET c == calls.by[p] IN
    \/ At(p, "trigger_ai_operation", "load_workpad")
       /\ LoadWorkpadStep(p, "write_operation")
    \/ /\ At(p, "trigger_ai_operation", "write_operation")
       /\ LET operation_id == OperationId(uuid.op + 1) IN
          /\ uuid' = [uuid EXCEPT !.op = @ + 1]
          /\ ai_operations' = Put(ai_operations, operation_id,
                                  NewAIOperation(operation_id, c.arg, c.input))
          /\ Continue(p, [c EXCEPT !.id = operation_id,
                                   !.pc = IF c.arg = NoneVal THEN "load_global_state"
                                          ELSE "load_workpad_again"])
       /\ UNCHANGED <<repositories, workpads, test_runs, promotions, global,
                      patches, notes, rollback_log, dirs, last, created, fault>>
    \/ At(p, "trigger_ai_operation", "load_workpad_again")
       /\ LoadWorkpadStep(p, "save_workpad")
    \/ /\ At(p, "trigger_ai_operation", "save_workpad")
       /\ workpads' = Put(workpads, c.workpad.workpad_id,
                          [c.workpad EXCEPT !.ai_operations = InsertFront(@, c.id)])
       /\ Continue(p, [c EXCEPT !.pc = "load_global_state"])
       /\ UNCHANGED <<repositories, test_runs, ai_operations, promotions, global,
                      patches, notes, rollback_log, dirs, uuid, last, created, fault>>

\* delete_workpad, step by step; remove_file is an error when the file is gone.
delete_workpad_call(p) ==
    LET c == calls.by[p] IN
    \/ At(p, "delete_workpad", "load_workpad")
       /\ LoadWorkpadStep(p, "remove_file")
    \/ /\ At(p, "delete_workpad", "remove_file")
       /\ IF c.arg \in DOMAIN workpads
          THEN /\ workpads' = Remove(workpads, {c.arg})
               /\ Continue(p, [c EXCEPT !.pc = "load_repository"])
          ELSE /\ Return(p)
               /\ UNCHANGED workpads
       /\ UNCHANGED <<repositories, test_runs, ai_operations, promotions, global,
                      patches, notes, rollback_log, dirs, uuid, last, created, fault>>
    \/ At(p, "delete_workpad", "load_repository")
       /\ LoadRepositoryStep(p, c.workpad.repo_id, "save_repository")
    \/ /\ At(p, "delete_workpad", "save_repository")
       /\ repositories' = Put(repositories, c.repo.repo_id, RepoWithoutWorkpad(c.repo, c.arg))
       /\ Continue(p, [c EXCEPT !.pc = "load_global_state"])
       /\ UNCHANGED <<workpads, test_runs, ai_operations, promotions, global,
                      patches, notes, rollback_log, dirs, uuid, last, created, fault>>

\* rollback_workpad, step by step.
rollback_workpad_call(p) ==
    LET c == calls.by[p] IN
    \/ At(p, "rollback_workpad", "load_workpad")
       /\ LoadWorkpadStep(p, "save_workpad")
    \/ /\ At(p, "rollback_workpad", "save_workpad")
       /\ rollback_log' = IF c.input # NoneVal
                          THEN Append2(rollback_log, c.arg, c.input)
                          ELSE rollback_log
       /\ workpads' = Put(workpads, c.workpad.workpad_id, RolledBackWorkpad(c.workpad))
       /\ Continue(p, [c EXCEPT !.pc = "load_global_state"])
       /\ UNCHANGED <<repositories, test_runs, ai_operations, promotions, global,
                      patches, notes, dirs, uuid, last, created, fault>>

\* create_repository, step by step: the directory and the document, then the
\* session.
create_repository_call(p) ==
    LET c == calls.by[p] IN
    /\ At(p, "create_repository", "write_repository")
    /\ LET repo_id == RepoId(uuid.repo + 1)
           repo    == NewRepository(repo_id, Trim(c.input), RepoPath(NoneVal, repo_id))
       IN  /\ uuid' = [uuid EXCEPT !.repo = @ + 1]
           /\ dirs' = dirs \cup {repo.path}
           /\ repositories' = Put(repositories, repo_id, repo)
           /\ Continue(p, [c EXCEPT !.id = repo_id, !.pc = "load_global_state"])
    /\ UNCHANGED <<workpads, test_runs, ai_operations, promotions, global,
                   patches, notes, rollback_log, last, created, fault>>

\* delete_repository, step by step; each scan of a directory is one step.
delete_repository_call(p) ==
    LET c == calls.by[p] IN
    \/ At(p, "delete_repository", "load_repository")
       /\ LoadRepositoryStep(p, c.arg, "remove_file")
    \/ /\ At(p, "delete_repository", "remove_file")
       /\ IF c.arg \in DOMAIN repositories
          THEN /\ repositories' = Remove(repositories, {c.arg})
               /\ Continue(p, [c EXCEPT !.pc = "scan_workpads"])
          ELSE /\ Return(p)
               /\ UNCHANGED repositories
       /\ UNCHANGED <<workpads, test_runs, ai_operations, promotions, global,
                      patches, notes, rollback_log, dirs, uuid, last, created, fault>>
    \/ /\ At(p, "delete_repository", "scan_workpads")
       /\ workpads' = Remove(workpads, RemovedWorkpads(c.arg))
       /\ Continue(p, [c EXCEPT !.removed = RemovedWorkpads(c.arg),
                                !.pc = "scan_test_runs"])
       /\ UNCHANGED <<repositories, test_runs, ai_operations, promotions, global,
                      patches, notes, rollback_log, dirs, uuid, last, created, fault>>
    \/ /\ At(p, "delete_repository", "scan_test_runs")
       /\ test_runs' = Remove(test_runs, RemovedTestRuns(c.removed))
       /\ Continue(p, [c EXCEPT !.pc = "scan_ai_operations"])
       /\ UNCHANGED <<repositories, workpads, ai_operations, promotions, global,
                      patches, notes, rollback_log, dirs, uuid, last, created, fault>>
    \/ /\ At(p, "delete_repository", "scan_ai_operations")
       /\ ai_operations' = Remove(ai_operations, RemovedAIOperations(c.removed))
       /\ Continue(p, [c EXCEPT !.pc = "scan_promotions"])
       /\ UNCHANGED <<repositories, workpads, test_runs, promotions, global,
                      patches, notes, rollback_log, dirs, uuid, last, created, fault>>
    \/ /\ At(p, "delete_repository", "scan_promotions")
       /\ promotions' = Remove(promotions, RemovedPromotions(c.arg))
       /\ dirs' = DirsAfterRemoval(c.repo.path)
       /\ Continue(p, [c EXCEPT !.pc = "load_global_state"])
       /\ UNCHANGED <<repositories, workpads, test_runs, ai_operations, global,
                      patches, notes, rollback_log, uuid, last, created, fault>>

\* The session as the command of call c saves it, from the session g it loaded.
SessionAfter(c, g) ==
    CASE c.cmd = "create_repository" -> SessionWithRepository(g, c.id)
      [] c.cmd = "create_workpad" ->
             [g EXCEPT !.active_repo = c.repo.repo_id,
                       !.active_workpad = c.id,
                       !.total_operations = @ + 1]
      [] c.cmd \in {"run_tests", "apply_patch", "rollback_workpad"} ->
             [g EXCEPT !.total_operations = @ + 1,
                       !.active_workpad = c.workpad.workpad_id]
      [] c.cmd \in {"promote_workpad", "delete_workpad"} ->
             [g EXCEPT !.active_workpad = IF @ = c.arg THEN NoneVal ELSE @,
                       !.total_operations = @ + 1]
      [] c.cmd = "trigger_ai_operation" ->
             [g EXCEPT !.total_operations = @ + 1,
                       !.total_cost_usd = @ + CostOf(TokensUsed(c.input))]
      [] c.cmd = "delete_repository" ->
             [g EXCEPT !.active_repo = IF @ = c.arg THEN NoneVal ELSE @,
                       !.active_workpad = ClearedIfRemoved(@, c.removed),
                       !.total_operations = @ + 1]

\* The last two steps of every command: load the session, save it changed.
session_call(p) ==
    LET c == calls.by[p] IN
    \/ /\ c.pc = "load_global_state"
       /\ Continue(p, [c EXCEPT !.g = load_global_state, !.pc = "save_global_state"])
       /\ UNCHANGED <<docs, patches, notes, rollback_log, dirs, uuid, last, created, fault>>
    \/ /\ c.pc = "save_global_state"
       /\ save_global_state(SessionAfter(c, c.g))
       /\ Return(p)
       /\ UNCHANGED <<repositories, workpads, test_runs, ai_operations, promotions,
                      patches, notes, rollback_log, dirs, uuid, last, created, fault>>

\* A process calls a command on a stored document, or creates a repository.
StartCall(p) ==
    \/ \E name \in NonBlank(Names) :
           Call(MaxCalls, p, "create_repository", NoneVal, name, "write_repository")
    \/ \E r \in DOMAIN repositories :
           Call(MaxCalls, p, "delete_repository", r, NoneVal, "load_repository")
    \/ \E r \in DOMAIN repositories, title \in NonBlank(Titles) :
           Call(MaxCalls, p, "create_workpad", r, title, "load_repository")
    \/ \E w \in DOMAIN workpads, diff \in ValidDiffs :
           Call(MaxCalls, p, "apply_patch", w, diff, "load_workpad")
    \/ \E w \in DOMAIN workpads, target \in NonBlank(Targets) :
           Call(MaxCalls, p, "run_tests", w, target, "load_workpad")
    \/ \E w \in DOMAIN workpads :
           Call(MaxCalls, p, "promote_workpad", w, NoneVal, "load_workpad")
    \/ \E w \in DOMAIN workpads, reason \in Reasons :
           Call(MaxCalls, p, "rollback_workpad", w, reason, "load_workpad")
    \/ \E w \in DOMAIN workpads :
           Call(MaxCalls, p, "delete_workpad", w, NoneVal, "load_workpad")
    \/ \E w \in DOMAIN workpads, prompt \in NonBlank(Prompts) :
           Call(MaxCalls, p, "trigger_ai_operation", w, prompt, "load_workpad")
    \/ \E prompt \in NonBlank(Prompts) :
           Call(MaxCalls, p, "trigger_ai_operation", NoneVal, prompt, "write_operation")

NextConc ==
    \/ \E p \in Procs : StartCall(p) /\ UNCHANGED io
    \/ \E p \in Procs : create_repository_call(p) /\ UNCHANGED io
    \/ \E p \in Procs : delete_repository_call(p) /\ UNCHANGED io
    \/ \E p \in Procs : create_workpad_call(p) /\ UNCHANGED io
    \/ \E p \in Procs : apply_patch_call(p) /\ UNCHANGED io
    \/ \E p \in Procs : run_tests_call(p) /\ UNCHANGED io
    \/ \E p \in Procs : promote_workpad_call(p) /\ UNCHANGED io
    \/ \E p \in Procs : rollback_workpad_call(p) /\ UNCHANGED io
    \/ \E p \in Procs : delete_workpad_call(p) /\ UNCHANGED io
    \/ \E p \in Procs : trigger_ai_operation_call(p) /\ UNCHANGED io
    \/ \E p \in Procs : session_call(p) /\ UNCHANGED io
\* Commands of several processes, interleaved file operation by file operation.
SpecConc == InitConc /\ [][NextConc]_vars

\* A process calls one of the commands that work on a patched workpad:
\* apply_patch, rollback_workpad, delete_workpad, delete_repository.
StartPatchCall(p) ==
    \/ \E w \in DOMAIN workpads, diff \in ValidDiffs :
           Call(MaxPatchCalls, p, "apply_patch", w, diff, "load_workpad")
    \/ \E w \in DOMAIN workpads, reason \in Reasons :
           Call(MaxPatchCalls, p, "rollback_workpad", w, reason, "load_workpad")
    \/ \E w \in DOMAIN workpads :
           Call(MaxPatchCalls, p, "delete_workpad", w, NoneVal, "load_workpad")
    \/ \E r \in DOMAIN repositories :
           Call(MaxPatchCalls, p, "delete_repository", r, NoneVal, "load_repository")
NextPatches ==
    \/ \E p \in Procs : StartPatchCall(p) /\ UNCHANGED io
    \/ \E p \in Procs : apply_patch_call(p) /\ UNCHANGED io
    \/ \E p \in Procs : rollback_workpad_call(p) /\ UNCHANGED io
    \/ \E p \in Procs : delete_workpad_call(p) /\ UNCHANGED io
    \/ \E p \in Procs : delete_repository_call(p) /\ UNCHANGED io
    \/ \E p \in Procs : session_call(p) /\ UNCHANGED io
\* Patches, rollbacks and deletions of several processes, interleaved file
\* operation by file operation.
SpecPatches == InitConc /\ [][NextPatches]_vars

\* ------------------------------------------- write_json, call by call
\* Concurrent write_json calls on one path, and chunks per serialized document
\* (write_all may need several write calls).
NumWriters == 2
Chunks == 2

Writers == 1..NumWriters
\* serde_json::to_string_pretty(value): the document of the call w, in chunks.
Serialize(v) == [i \in 1..Chunks |-> <<v, i>>]
\* The documents a reader may see whole: the previous one and each call's.
WholeContents == {Serialize(v) : v \in {0} \cup Writers}

\* The zero bytes a write past the end of a file leaves before it.
Hole == <<0, 0>>
\* write(2) of chunk x at offset off of a file: a write past the end leaves a hole.
RECURSIVE WriteAt(_, _, _)
WriteAt(content, off, x) ==
    IF off < Len(content) THEN [content EXCEPT ![off + 1] = x]
    ELSE IF off = Len(content) THEN Append(content, x)
    ELSE WriteAt(Append(content, Hole), off, x)

\* The inodes still linked in the directory or open in a call.
Live(fs, ws) ==
    {fs[n] : n \in DOMAIN fs} \cup {ws[w].fd : w \in {x \in DOMAIN ws : ws[x].pc = "write"}}
Collect(ins, fs, ws) == [i \in DOMAIN ins \cap Live(fs, ws) |-> ins[i]]

\* The path holds no document, or the previous document, when the calls start.
InitWrite ==
    /\ InitStore
    /\ \/ files = EmptyDocs /\ inodes = EmptyDocs
       \/ files = [n \in {"doc"} |-> 0] /\ inodes = [i \in {0} |-> Serialize(0)]
    /\ writers = [w \in Writers |-> [pc |-> "start", fd |-> 0, offset |-> 0]]
    /\ observed = [kind |-> "none", content |-> <<>>]

\* create_dir_all(parent), path.with_extension("tmp"), to_string_pretty(value)
WriteJsonStart(w) ==
    /\ writers[w].pc = "start"
    /\ writers' = [writers EXCEPT ![w].pc = "create"]
    /\ UNCHANGED <<files, inodes, observed>>

\* fs::write, first half: File::create(tmp_path) opens the file, truncating
\* the one that is there.
WriteJsonCreate(w) ==
    /\ writers[w].pc = "create"
    /\ LET ino == IF "tmp" \in DOMAIN files THEN files["tmp"] ELSE w
       IN  /\ files' = Put(files, "tmp", ino)
           /\ inodes' = Put(inodes, ino, <<>>)
           /\ writers' = [writers EXCEPT ![w] = [pc |-> "write", fd |-> ino, offset |-> 0]]
    /\ UNCHANGED observed

\* fs::write, second half: write_all, one chunk per write call, then close.
WriteJsonWrite(w) ==
    /\ writers[w].pc = "write"
    /\ LET me   == writers[w]
           off  == me.offset + 1
           ws   == [writers EXCEPT ![w] = [pc |-> IF off = Chunks THEN "rename" ELSE "write",
                                           fd |-> me.fd, offset |-> off]]
           ins  == [inodes EXCEPT ![me.fd] = WriteAt(@, me.offset, Serialize(w)[off])]
       IN  /\ writers' = ws
           /\ inodes' = Collect(ins, files, ws)
    /\ UNCHANGED <<files, observed>>

\* fs::rename(tmp_path, path): the tmp file replaces the document in one step,
\* or the call fails when there is no tmp file any more.
WriteJsonRename(w) ==
    /\ writers[w].pc = "rename"
    /\ IF "tmp" \in DOMAIN files
       THEN LET fs == Put(Remove(files, {"tmp"}), "doc", files["tmp"])
                ws == [writers EXCEPT ![w].pc = "ok"]
            IN  /\ files' = fs
                /\ writers' = ws
                /\ inodes' = Collect(inodes, fs, ws)
       ELSE /\ writers' = [writers EXCEPT ![w].pc = "err"]
            /\ UNCHANGED <<files, inodes>>
    /\ UNCHANGED observed

\* The process dies in the middle of a write_json call.
WriteJsonCrash(w) ==
    /\ writers[w].pc \in {"create", "write", "rename"}
    /\ LET ws == [writers EXCEPT ![w].pc = "crashed"]
       IN  /\ writers' = ws
           /\ inodes' = Collect(inodes, files, ws)
    /\ UNCHANGED <<files, observed>>

\* read_json: None when the path does not exist, else the content read, which
\* parses only when it is a whole document.
ReadJson ==
    /\ observed' =
           IF "doc" \notin DOMAIN files THEN [kind |-> "none", content |-> <<>>]
           ELSE LET c == inodes[files["doc"]]
                IN  [kind |-> IF c \in WholeContents THEN "some" ELSE "parse_error",
                     content |-> c]
    /\ UNCHANGED <<files, inodes, writers>>

NextWrite ==
    \/ \E w \in Writers : WriteJsonStart(w) /\ UNCHANGED store
    \/ \E w \in Writers : WriteJsonCreate(w) /\ UNCHANGED store
    \/ \E w \in Writers : WriteJsonWrite(w) /\ UNCHANGED store
    \/ \E w \in Writers : WriteJsonRename(w) /\ UNCHANGED store
    \/ \E w \in Writers : WriteJsonCrash(w) /\ UNCHANGED store
    \/ ReadJson /\ UNCHANGED store
\* Concurrent write_json calls on one path, a reader, and crashes.
SpecWrite == InitWrite /\ [][NextWrite]_vars

\* ------------------------------------------------------------------ claims
\* A step in which a command returned Ok: every successful command adds one to
\* the session's total_operations.
Succeeded(cmd) ==
    /\ last'.cmd = cmd
    /\ last'.ok
    /\ load_global_state'.total_operations = load_global_state.total_operations + 1

\* C1: every stored workpad names an existing repository, and that
\* repository's workpads list contains the workpad's id.
ReferenceIntegrity ==
    \A w \in DOMAIN workpads :
        /\ workpads[w].repo_id \in DOMAIN repositories
        /\ Contains(repositories[workpads[w].repo_id].workpads, w)
\* A repository was deleted and workpads of another repository are still stored.
ReferenceIntegrityWitness ==
    /\ last.cmd = "delete_repository"
    /\ last.ok
    /\ DOMAIN workpads # {}

\* C2: every stored test run (AI operation) that names a workpad is in that
\* workpad's test_runs (ai_operations) list.
DependentsListed ==
    /\ \A t \in DOMAIN test_runs :
           LET w == test_runs[t].workpad_id
           IN  w # NoneVal => w \in DOMAIN workpads /\ Contains(workpads[w].test_runs, t)
    /\ \A o \in DOMAIN ai_operations :
           LET w == ai_operations[o].workpad_id
           IN  w # NoneVal => w \in DOMAIN workpads /\ Contains(workpads[w].ai_operations, o)

\* C3: every read of the path sees no file, or the whole previous document, or
\* the whole document of one write_json call.
ReadsAreWhole == observed.kind = "none" \/ observed.content \in WholeContents

\* C4: a step changes a repository's current_commit only when it is a
\* successful promote_workpad of a workpad of that repository.
OnlyPromotionMovesTrunk ==
    [][\A r \in DOMAIN repositories \cap DOMAIN repositories' :
           repositories'[r].current_commit # repositories[r].current_commit
               => /\ Succeeded("promote_workpad")
                  /\ workpads[last'.arg].repo_id = r]_vars
\* A repository whose trunk a promotion advanced went through a later
\* create_workpad or delete_workpad.
OnlyPromotionMovesTrunkWitness ==
    /\ last.cmd \in {"create_workpad", "delete_workpad"}
    /\ last.ok
    /\ \E r \in DOMAIN repositories : repositories[r].current_commit # NoneVal

\* C5: a successful promote_workpad of a workpad that is already promoted
\* leaves its repository's current_commit as it was before the call.
RepromotionKeepsTrunk ==
    [][(/\ Succeeded("promote_workpad")
        /\ uuid'.pr = uuid.pr + 1
        /\ workpads[last'.arg].status = "promoted")
           => LET r == workpads[last'.arg].repo_id
              IN  repositories'[r].current_commit = repositories[r].current_commit]_vars

\* C6: the status of a stored workpad that is promoted stays promoted.
PromotedIsTerminal ==
    [][\A w \in DOMAIN workpads \cap DOMAIN workpads' :
           workpads[w].status = "promoted" => workpads'[w].status = "promoted"]_vars

\* The place of a status in draft -> active -> in_progress -> passed|failed -> promoted.
StatusRank(status) ==
    CASE status = "draft" -> 0
      [] status = "active" -> 1
      [] status = "in_progress" -> 2
      [] status \in {"passed", "failed"} -> 3
      [] status = "promoted" -> 4
\* C7: a status changes only forward along the state machine or back to draft;
\* passed and failed are entered only from in_progress, promoted only from
\* passed or failed.
StatusFollowsMachine ==
    [][\A w \in DOMAIN workpads \cap DOMAIN workpads' :
           LET from == workpads[w].status
               to   == workpads'[w].status
           IN  from # to =>
                   \/ to = "draft"
                   \/ /\ StatusRank(from) < StatusRank(to)
                      /\ to \in {"passed", "failed"} => from = "in_progress"
                      /\ to = "promoted" => from \in {"passed", "failed"}]_vars

\* C8: right after a successful rollback_workpad(w), w's current_commit is the
\* base commit captured when w was created.
RollbackRestoresBase ==
    (last.cmd = "rollback_workpad" /\ last.ok)
        => workpads[last.arg].current_commit = created[last.arg].base_commit
\* A workpad that had a patch applied was rolled back.
RollbackRestoresBaseWitness ==
    /\ last.cmd = "rollback_workpad"
    /\ last.ok
    /\ last.arg \in DOMAIN notes

\* C9: the base_commit of every stored workpad is the one captured at its
\* creation: the repository's current commit then, or its trunk branch name.
BaseCommitImmutable ==
    \A w \in DOMAIN workpads : workpads[w].base_commit = created[w].base_commit
\* A promotion moved the repository's trunk away from a workpad's base commit.
BaseCommitImmutableWitness ==
    \E w \in DOMAIN workpads :
        LET r == workpads[w].repo_id
        IN  /\ r \in DOMAIN repositories
            /\ repositories[r].current_commit # NoneVal
            /\ repositories[r].current_commit # workpads[w].base_commit

\* The workpads ever created in repository r, stored or deleted.
CreatedIn(r) == {w \in DOMAIN created : created[w].repo_id = r}
\* C10: right after a successful delete_repository(r) no workpad or promotion
\* record of r is stored, and no test run or AI operation of a workpad that was
\* ever created in r.
RepositoryDeleteLeavesNothing ==
    (last.cmd = "delete_repository" /\ last.ok)
        => /\ \A w \in DOMAIN workpads : workpads[w].repo_id # last.arg
           /\ \A p \in DOMAIN promotions : promotions[p].repo_id # last.arg
           /\ \A t \in DOMAIN test_runs : test_runs[t].workpad_id \notin CreatedIn(last.arg)
           /\ \A o \in DOMAIN ai_operations :
                  ai_operations[o].workpad_id \notin CreatedIn(last.arg)

\* C11: the session's active_repo, when set, names a stored repository, and its
\* active_workpad, when set, names a stored workpad.
NoDanglingSessionPointer ==
    /\ load_global_state.active_repo \in DOMAIN repositories \cup {NoneVal}
    /\ load_global_state.active_workpad \in DOMAIN workpads \cup {NoneVal}
\* The third successful command deleted a repository in which a workpad was
\* created, so the second one was that create_workpad and the session pointed
\* at the workpad when the cascade removed it.
NoDanglingSessionPointerWitness ==
    /\ last.cmd = "delete_repository"
    /\ last.ok
    /\ last.arg \in {created[w].repo_id : w \in DOMAIN created}
    /\ load_global_state.total_operations = 3
    /\ load_global_state.active_workpad = NoneVal

\* C12: any two distinct stored workpads have different branch names.
BranchNamesUnique ==
    \A v, w \in DOMAIN workpads :
        v # w => workpads[v].branch_name # workpads[w].branch_name

\* A list without duplicate entries.
NoDuplicates(list) == \A i, j \in DOMAIN list : i # j => list[i] # list[j]
\* C13: a successful create_workpad(r, title) stores a new draft workpad, leaves
\* its id first in r's workpads list, before the ids that were there, without
\* duplicates, and points the session at r and at the new workpad; a failing
\* create_workpad leaves every document as it was.
CreateWorkpadContract ==
    [][last'.cmd = "create_workpad" =>
           IF last'.ok
           THEN LET r    == last'.arg
                    w    == last'.id
                    list == repositories'[r].workpads
                IN  /\ w \notin DOMAIN workpads
                    /\ workpads'[w].status = "draft"
                    /\ workpads'[w].repo_id = r
                    /\ list = <<w>> \o repositories[r].workpads
                    /\ NoDuplicates(list)
                    /\ load_global_state'.active_repo = r
                    /\ load_global_state'.active_workpad = w
           ELSE UNCHANGED docs]_vars
\* A second workpad was created in a repository: its id is listed before the
\* first one's.
CreateWorkpadContractWitness ==
    /\ last.cmd = "create_workpad"
    /\ last.ok
    /\ Len(repositories[last.arg].workpads) = 2

\* The paths named by the "+++ b/" and "--- a/" lines of a diff.
HeaderPaths(diff) ==
    {diff[i][2] : i \in {j \in DOMAIN diff : diff[j][1] = "+++ b/" \/ diff[j][1] = "--- a/"}}
\* A list of file names in strictly increasing order.
StrictlySorted(list) ==
    \A i, j \in DOMAIN list : i < j => FileRank(list[i]) < FileRank(list[j])
\* The commit ids that some stored document holds.
KnownCommits ==
    {workpads[w].current_commit : w \in DOMAIN workpads}
        \cup {workpads[w].base_commit : w \in DOMAIN workpads}
        \cup {repositories[r].current_commit : r \in DOMAIN repositories}
        \cup {promotions[p].commit_hash : p \in DOMAIN promotions}
\* C14: a successful apply_patch(w, message, diff) adds 1 to w's
\* patches_applied, sets its status to in_progress and its current_commit to a
\* commit id no document held, and makes files_changed the sorted,
\* duplicate-free union of its old value and the diff's header paths; a new
\* workpad and a rolled back one have 0 patches applied, and no other command
\* changes the counter.
ApplyPatchContract ==
    [][\A w \in DOMAIN workpads' :
           IF w \notin DOMAIN workpads
           THEN workpads'[w].patches_applied = 0
           ELSE IF Succeeded("apply_patch") /\ last'.arg = w
           THEN LET diff == notes'[w][Len(notes'[w])].diff
                    old  == workpads[w]
                    new  == workpads'[w]
                IN  /\ new.patches_applied = old.patches_applied + 1
                    /\ new.status = "in_progress"
                    /\ new.current_commit \notin KnownCommits \cup {NoneVal}
                    /\ Range(new.files_changed) =
                           Range(old.files_changed) \cup HeaderPaths(diff)
                    /\ StrictlySorted(new.files_changed)
           ELSE IF Succeeded("rollback_workpad") /\ last'.arg = w
           THEN workpads'[w].patches_applied = 0
           ELSE workpads'[w].patches_applied = workpads[w].patches_applied]_vars
\* A second patch was applied to a workpad: its files join those of the first.
ApplyPatchContractWitness ==
    /\ last.cmd = "apply_patch"
    /\ last.ok
    /\ workpads[last.arg].patches_applied = 2
    /\ workpads[last.arg].files_changed = <<"a.txt", "b.txt", "c.txt">>

RunTestsContract ==
    [][last'.cmd = "run_tests" =>
           IF last'.ok
           THEN LET w == last'.arg
                    t == last'.id
                IN  /\ t \notin DOMAIN test_runs
                    /\ DOMAIN test_runs' = DOMAIN test_runs \cup {t}
                    /\ \A x \in DOMAIN test_runs : test_runs'[x] = test_runs[x]
                    /\ test_runs'[t].workpad_id = w
                    /\ workpads'[w].test_runs = <<t>> \o workpads[w].test_runs
                    /\ test_runs'[t].status \in {"passed", "failed"}
                    /\ workpads'[w].status = test_runs'[t].status
           ELSE UNCHANGED docs]_vars
\* Tests ran a second time on a workpad: the new run is listed before the first.
RunTestsContractWitness ==
    /\ last.cmd = "run_tests"
    /\ last.ok
    /\ Len(workpads[last.arg].test_runs) = 2

\* C17: a successful promote_workpad(w) leaves w promoted with promoted_at
\* set, sets the repository's current_commit to w's when w has one and leaves
\* it as it was otherwise, and stores exactly one new promotion record, which
\* names w and its repository, w's current_commit and the first id of w's
\* test_runs list (none for an empty list), the other records staying as they
\* were; a failing promote_workpad leaves every document as it was.
PromoteWorkpadContract ==
    [][last'.cmd = "promote_workpad" =>
           IF last'.ok
           THEN LET w    == last'.arg
                    p    == last'.id
                    old  == workpads[w]
                    r    == old.repo_id
                IN  /\ workpads'[w].status = "promoted"
                    /\ workpads'[w].promoted_at # NoneVal
                    /\ repositories'[r].current_commit =
                           IF old.current_commit # NoneVal THEN old.current_commit
                           ELSE repositories[r].current_commit
                    /\ p \notin DOMAIN promotions
                    /\ DOMAIN promotions' = DOMAIN promotions \cup {p}
                    /\ \A x \in DOMAIN promotions : promotions'[x] = promotions[x]
                    /\ promotions'[p].repo_id = r
                    /\ promotions'[p].workpad_id = w
                    /\ promotions'[p].commit_hash = old.current_commit
                    /\ promotions'[p].test_run_id =
                           IF old.test_runs = <<>> THEN NoneVal ELSE old.test_runs[1]
           ELSE UNCHANGED docs]_vars
\* A workpad with a patch applied and tests run was promoted: the record holds
\* its commit and its test run, and the repository's trunk is at its commit.
PromoteWorkpadContractWitness ==
    /\ last.cmd = "promote_workpad"
    /\ last.ok
    /\ promotions[last.id].test_run_id # NoneVal
    /\ promotions[last.id].commit_hash # NoneVal
    /\ repositories[promotions[last.id].repo_id].current_commit
           = promotions[last.id].commit_hash

\* C18: a successful rollback_workpad(w) leaves w a draft with 0 patches
\* applied and empty files_changed and test_runs lists, and leaves w's
\* ai_operations, base_commit, branch_name and repo_id, every other workpad,
\* and every repository, test run, AI operation and promotion record as they
\* were.
RollbackFrame ==
    [][(last'.cmd = "rollback_workpad" /\ last'.ok) =>
           LET w   == last'.arg
               old == workpads[w]
               new == workpads'[w]
           IN  /\ new.status = "draft"
               /\ new.patches_applied = 0
               /\ new.files_changed = <<>>
               /\ new.test_runs = <<>>
               /\ new.ai_operations = old.ai_operations
               /\ new.base_commit = old.base_commit
               /\ new.branch_name = old.branch_name
               /\ new.repo_id = old.repo_id
               /\ DOMAIN workpads' = DOMAIN workpads
               /\ \A v \in DOMAIN workpads \ {w} : workpads'[v] = workpads[v]
               /\ UNCHANGED <<repositories, test_runs, ai_operations, promotions>>]_vars
\* A workpad with an AI operation and a test run was rolled back: it keeps the
\* AI operation and the test run document stays stored.
RollbackFrameWitness ==
    /\ last.cmd = "rollback_workpad"
    /\ last.ok
    /\ workpads[last.arg].ai_operations # <<>>
    /\ \E t \in DOMAIN test_runs : test_runs[t].workpad_id = last.arg

CreateRepositoryContract ==
    [][last'.cmd = "create_repository" =>
           IF last'.ok
           THEN LET r == last'.id
                IN  /\ r \notin DOMAIN repositories
                    /\ DOMAIN repositories' = DOMAIN repositories \cup {r}
                    /\ \A x \in DOMAIN repositories : repositories'[x] = repositories[x]
                    /\ repositories'[r].workpads = <<>>
                    /\ repositories'[r].current_commit = NoneVal
                    /\ load_global_state'.active_repo = r
                    /\ load_global_state'.active_workpad = NoneVal
                    /\ UNCHANGED <<workpads, test_runs, ai_operations, promotions>>
           ELSE UNCHANGED <<docs, dirs>>]_vars
\* The third successful command created a second repository while a workpad
\* of the first one is stored: the second command was that create_workpad and
\* its workpad was active when the repository was created.
CreateRepositoryContractWitness ==
    /\ last.cmd = "create_repository"
    /\ last.ok
    /\ load_global_state.total_operations = 3
    /\ DOMAIN workpads # {}
    /\ load_global_state.active_workpad = NoneVal

\* C21: a stored promotion record never changes; a step removes one only when
\* it is a successful delete_repository of the record's repository; a
\* successful promote_workpad adds exactly one record and no other step adds
\* any.
PromotionsAppendOnly ==
    [][/\ \A p \in DOMAIN promotions :
              IF p \in DOMAIN promotions'
              THEN promotions'[p] = promotions[p]
              ELSE /\ Succeeded("delete_repository")
                   /\ last'.arg = promotions[p].repo_id
       /\ Cardinality(DOMAIN promotions' \ DOMAIN promotions) =
              IF Succeeded("promote_workpad") THEN 1 ELSE 0]_vars
\* A promoted workpad was deleted and the record of its promotion is stored.
PromotionsAppendOnlyWitness ==
    /\ last.cmd = "delete_workpad"
    /\ last.ok
    /\ \E p \in DOMAIN promotions : promotions[p].workpad_id = last.arg

\* C23: a command that returns Ok adds exactly 1 to the session's
\* total_operations and one that returns Err leaves the session document as
\* it was; the session document, once stored, stays stored; the command that
\* stores it first leaves it with 1 operation, the cost of that command, no
\* active workpad and no active repository but the one it created.
SessionCounts ==
    [][/\ IF last'.ok
          THEN load_global_state'.total_operations = load_global_state.total_operations + 1
          ELSE global' = global
       /\ "global" \in DOMAIN global => "global" \in DOMAIN global'
       /\ ("global" \notin DOMAIN global /\ "global" \in DOMAIN global') =>
              /\ global'["global"].total_operations = 1
              /\ global'["global"].total_cost_usd =
                     IF last'.cmd = "trigger_ai_operation"
                     THEN ai_operations'[last'.id].cost_usd ELSE 0
              /\ global'["global"].active_workpad = NoneVal
              /\ global'["global"].active_repo =
                     IF last'.cmd = "create_repository" THEN last'.id ELSE NoneVal]_vars
\* A command failed while the session pointed at a workpad, after the session
\* had counted four commands.
SessionCountsWitness ==
    /\ ~last.ok
    /\ "global" \in DOMAIN global
    /\ global["global"].total_operations = 4
    /\ global["global"].active_workpad # NoneVal

\* ASCII punctuation of the title alphabet.
Punctuation == {"!", "-"}
\* C24: the branch name of every stored workpad is 'workpad/' and a non-empty
\* fragment of lower-case letters, digits and '-' that neither starts nor ends
\* with '-'; for a title of punctuation only the fragment holds only letters
\* and digits, all of them characters of the workpad's id.
BranchNamesSafe ==
    \A w \in DOMAIN workpads :
        LET name  == workpads[w].branch_name
            frag  == Tail(name)
            title == workpads[w].title
        IN  /\ Head(name) = "workpad/"
            /\ frag # <<>>
            /\ Range(frag) \subseteq Range(Lower) \cup Range(Digits) \cup {"-"}
            /\ frag[1] # "-"
            /\ frag[Len(frag)] # "-"
            /\ Range(title) \subseteq Punctuation =>
                   /\ Range(frag) \subseteq Range(Lower) \cup Range(Upper) \cup Range(Digits)
                   /\ \E n \in 1..uuid.wp :
                          /\ WorkpadId(n) = w
                          /\ Range(frag) \subseteq Range(WorkpadIdChars(n))
\* A workpad whose title is punctuation only is stored.
BranchNamesSafeWitness ==
    \E w \in DOMAIN workpads :
        /\ workpads[w].title # <<>>
        /\ Range(workpads[w].title) \subseteq Punctuation

\* C22: patch history is append-only.  No step of any command, of this process
\* or of one running at the same time, removes a patch file or changes its
\* content; the patch files change only at the store_patch_diff step of an
\* apply_patch that loaded its workpad, and that step adds exactly one new
\* file, named after the workpad, holding the diff of the call.
PatchHistoryAppendOnly ==
    [][/\ \A f \in DOMAIN patches : f \in DOMAIN patches' /\ patches'[f] = patches[f]
       /\ \A p \in Procs :
              At(p, "apply_patch", "store_patch_diff") /\ calls'.by[p] # calls.by[p]
                  => \E f \in {PatchId(calls.by[p].arg, n) : n \in 1..uuid'.patch} :
                         /\ f \notin DOMAIN patches
                         /\ DOMAIN patches' = DOMAIN patches \cup {f}
                         /\ patches'[f] = calls.by[p].input
       /\ patches' # patches
              => \E p \in Procs :
                     At(p, "apply_patch", "store_patch_diff") /\ calls'.by[p] # calls.by[p]
      ]_vars
\* Two apply_patch calls on the same workpad run at the same time, with
\* different diffs, and both have stored their patch file next to the one
\* that was there.
PatchHistoryAppendOnlyWitness ==
    /\ \A p \in {1, 2} : At(p, "apply_patch", "save_workpad")
    /\ calls.by[1].arg = calls.by[2].arg
    /\ calls.by[1].input # calls.by[2].input
    /\ patches[calls.by[1].id] = calls.by[1].input
    /\ patches[calls.by[2].id] = calls.by[2].input
    /\ Cardinality(DOMAIN patches) = 3

\* C25: once every command has returned, every stored workpad whose
\* repository is stored is in that repository's workpads list, however the
\* file operations of the commands were interleaved.
WorkpadsListedAfterReturn ==
    AllReturned =>
        \A w \in DOMAIN workpads :
            workpads[w].repo_id \in DOMAIN repositories
                => Contains(repositories[workpads[w].repo_id].workpads, w)

\* C26: the total_operations stored in global.json never decreases from one
\* step to the next, however the commands' session updates are interleaved.
TotalOperationsMonotonic ==
    [][load_global_state'.total_operations >= load_global_state.total_operations]_vars

\* C27: a workpad or repository document that was created and is no longer
\* stored is not stored after any later step either.
DeletedStaysDeleted ==
    [][/\ \A w \in DOMAIN created :
              w \notin DOMAIN workpads => w \notin DOMAIN workpads'
       /\ \A n \in 1..uuid.repo :
              RepoId(n) \notin DOMAIN repositories => RepoId(n) \notin DOMAIN repositories'
      ]_vars

\* C28: once every command has returned, a stored repository that has a
\* promotion record with a commit hash has the commit hash of one of its
\* promotion records as its current_commit.
PromotionNotUndone ==
    AllReturned =>
        \A r \in DOMAIN repositories :
            (\E p \in DOMAIN promotions :
                 promotions[p].repo_id = r /\ promotions[p].commit_hash # NoneVal)
                => \E p \in DOMAIN promotions :
                       /\ promotions[p].repo_id = r
                       /\ promotions[p].commit_hash = repositories[r].current_commit

\* C29: a command that a failing file operation cuts short returns an error
\* and keeps what it wrote before.  promote_workpad: the workpad stays
\* promoted once it was saved; a failure writing the record leaves the
\* repository's current_commit advanced and no record; a failure in the
\* session update leaves workpad, repository and record written.
\* create_workpad: the workpad document stays once written, and the
\* repository lists it once saved.  The session is as it was in every case.
PartialWritesStay ==
    [][fault' # fault =>
           LET step    == fault'[Len(fault')]
               session == {"load_global_state", "save_global_state"}
           IN  /\ ~last'.ok
               /\ global' = global
               /\ last'.cmd = "promote_workpad" =>
                      LET w == last'.arg
                          r == workpads[w].repo_id
                      IN  /\ IF step = "save_workpad"
                             THEN workpads' = workpads
                             ELSE /\ workpads'[w].status = "promoted"
                                  /\ workpads'[w].promoted_at = Now
                          /\ IF step \in {"save_workpad", "save_repository"}
                             THEN repositories' = repositories
                             ELSE repositories'[r].current_commit =
                                      IF workpads[w].current_commit # NoneVal
                                      THEN workpads[w].current_commit
                                      ELSE repositories[r].current_commit
                          /\ IF step \in session
                             THEN \E p \in DOMAIN promotions' \ DOMAIN promotions :
                                      /\ DOMAIN promotions' = DOMAIN promotions \cup {p}
                                      /\ promotions'[p].workpad_id = w
                             ELSE promotions' = promotions
               /\ last'.cmd = "create_workpad" =>
                      LET r  == last'.arg
                          id == WorkpadId(uuid.wp + 1)
                      IN  /\ IF step = "write_workpad"
                             THEN workpads' = workpads
                             ELSE /\ DOMAIN workpads' = DOMAIN workpads \cup {id}
                                  /\ id \notin DOMAIN workpads
                                  /\ workpads'[id].repo_id = r
                          /\ IF step \in session
                             THEN repositories'[r].workpads = <<id>> \o repositories[r].workpads
                             ELSE repositories' = repositories
      ]_vars
\* A promotion of a workpad with a commit of its own failed writing its
\* record: the workpad is promoted, trunk is at its commit, no record exists.
PartialWritesStayWitness ==
    /\ last.cmd = "promote_workpad"
    /\ ~last.ok
    /\ fault # <<>>
    /\ fault[Len(fault)] = "write_promotion"
    /\ workpads[last.arg].status = "promoted"
    /\ workpads[last.arg].current_commit \in {CommitId(n) : n \in 1..uuid.commit}
    /\ repositories[workpads[last.arg].repo_id].current_commit
           = workpads[last.arg].current_commit
    /\ promotions = EmptyDocs

\* C30: write ordering of create_workpad.  Wherever a create_workpad stops,
\* at its end or at any point before, every id in every repository's
\* workpads list names a stored workpad, and the session's active_workpad is
\* the new workpad only if its document is stored and its repository lists it.
CreateWorkpadWriteOrder ==
    [][last'.cmd = "create_workpad" =>
           /\ \A r \in DOMAIN repositories' :
                  \A i \in DOMAIN repositories'[r].workpads :
                      repositories'[r].workpads[i] \in DOMAIN workpads'
           /\ LET id == WorkpadId(uuid.wp + 1) IN
              load_global_state'.active_workpad = id
                  => /\ id \in DOMAIN workpads'
                     /\ Contains(repositories'[last'.arg].workpads, id)
      ]_vars
\* A create_workpad stopped between its two document writes: the workpad is
\* stored, its repository does not list it yet.
CreateWorkpadWriteOrderWitness ==
    /\ last.cmd = "create_workpad"
    /\ ~last.ok
    /\ fault # <<>>
    /\ fault[Len(fault)] = "save_repository"
    /\ \E w \in DOMAIN workpads :
           /\ workpads[w].repo_id = last.arg
           /\ ~Contains(repositories[last.arg].workpads, w)

\* The repository a workpad id was created in, if it ever was.
OwnerOf(workpad_id) ==
    IF workpad_id \in DOMAIN created THEN created[workpad_id].repo_id ELSE NoneVal

\* C31: a successful delete_repository(r) leaves alone what belongs to
\* another repository: every other repository document, every workpad of
\* another repository, every test run and AI operation whose workpad was
\* created in another repository (or that names no workpad), every promotion
\* record of another repository; and the session's active_repo when it is not
\* r, its active_workpad when it names a workpad created in another
\* repository.
DeleteRepositoryFrame ==
    [][(last'.cmd = "delete_repository" /\ last'.ok) =>
           LET r == last'.arg
               g == load_global_state
           IN  /\ \A x \in DOMAIN repositories \ {r} :
                      x \in DOMAIN repositories' /\ repositories'[x] = repositories[x]
               /\ \A w \in DOMAIN workpads :
                      workpads[w].repo_id # r
                          => w \in DOMAIN workpads' /\ workpads'[w] = workpads[w]
               /\ \A t \in DOMAIN test_runs :
                      OwnerOf(test_runs[t].workpad_id) # r
                          => t \in DOMAIN test_runs' /\ test_runs'[t] = test_runs[t]
               /\ \A o \in DOMAIN ai_operations :
                      OwnerOf(ai_operations[o].workpad_id) # r
                          => o \in DOMAIN ai_operations'
                             /\ ai_operations'[o] = ai_operations[o]
               /\ \A p \in DOMAIN promotions :
                      promotions[p].repo_id # r
                          => p \in DOMAIN promotions' /\ promotions'[p] = promotions[p]
               /\ g.active_repo # r
                      => load_global_state'.active_repo = g.active_repo
               /\ (g.active_workpad # NoneVal /\ OwnerOf(g.active_workpad) \notin {r, NoneVal})
                      => load_global_state'.active_workpad = g.active_workpad
      ]_vars
\* A repository was deleted while another one has a workpad with a test run,
\* and the session points to that other repository and its workpad.
DeleteRepositoryFrameWitness ==
    /\ last.cmd = "delete_repository"
    /\ last.ok
    /\ \E t \in DOMAIN test_runs :
           LET w == test_runs[t].workpad_id IN
           /\ w \in DOMAIN workpads
           /\ workpads[w].repo_id \in DOMAIN repositories
           /\ workpads[w].repo_id # last.arg
           /\ load_global_state.active_workpad = w
           /\ load_global_state.active_repo = workpads[w].repo_id

\* C32: a successful delete_repository(r) changes the directories only when
\* r's path lies under the managed repositories root, and the backing
\* directory of every other stored repository is still there afterwards,
\* whatever path r was created with.
DeleteKeepsOtherDirectories ==
    [][(last'.cmd = "delete_repository" /\ last'.ok) =>
           LET r == last'.arg IN
           /\ dirs' # dirs => StartsWith(repositories[r].path, ReposDir)
           /\ \A x \in DOMAIN repositories \ {r} :
                  repositories[x].path \in dirs => repositories[x].path \in dirs'
      ]_vars

\* C33: the session's accumulated cost, 2 units of 0.00001 USD per token, is
\* the sum over the successful trigger_ai_operation calls: it starts at 0, a
\* successful call writes one new AIOperation document whose tokens_used is
\* the prompt's length divided by 4 and rounded up, and adds twice that to the
\* cost; a failed call writes no AIOperation document; every other command,
\* delete_repository included, leaves the cost as it was.
CostAccumulates ==
    [][LET cost  == load_global_state.total_cost_usd
           cost2 == load_global_state'.total_cost_usd
       IN  /\ "global" \notin DOMAIN global => cost = 0
           /\ cost2 >= cost
           /\ IF last'.cmd = "trigger_ai_operation" /\ last'.ok
              THEN LET o == last'.id IN
                   /\ o \notin DOMAIN ai_operations
                   /\ DOMAIN ai_operations' = DOMAIN ai_operations \cup {o}
                   /\ \E t \in 0..Len(ai_operations'[o].prompt) :
                          /\ 4 * t >= Len(ai_operations'[o].prompt)
                          /\ 4 * (t - 1) < Len(ai_operations'[o].prompt)
                          /\ ai_operations'[o].tokens_used = t
                          /\ cost2 = cost + 2 * t
              ELSE /\ cost2 = cost
                   /\ last'.cmd = "trigger_ai_operation" => ai_operations' = ai_operations
      ]_vars
\* Two AI operations of 2 tokens and 1 token succeeded, one blank prompt or
\* unknown workpad aside, and delete_repository has removed one of their
\* documents: the cost is still that of 3 tokens.
CostAccumulatesWitness ==
    /\ last.cmd = "delete_repository"
    /\ last.ok
    /\ uuid.op = 2
    /\ Cardinality(DOMAIN ai_operations) = 1
    /\ load_global_state.total_cost_usd = 2 * 3
====
